---- MODULE Spec2Model ----
(***************************************************************************)
(* PySysInfo: the EDID decoders (dumps/windows/display.py,                  *)
(* dumps/common/edid.py and dumps/linux/display.py), the device path       *)
(* resolvers (dumps/windows/common.py and dumps/linux/common.py) and the   *)
(* monitor enumeration of dumps/windows/display.py.                        *)
(*                                                                         *)
(* Representation.  A bytes object is a sequence of integers 0..255; the   *)
(* Python index d[i] is At(d, i).  A decoded text is the sequence of its   *)
(* code points.  Python's None is the empty sequence None and a present    *)
(* value v is Some(v).  A path string is a sequence of one-character       *)
(* strings.  DisplayModuleInfo / ResolutionInfo objects are records of the *)
(* attributes parse_edid stores on them; an attribute store is a plain     *)
(* store (the field validation of the pydantic base class is not part of   *)
(* the sources).                                                           *)
(***************************************************************************)
EXTENDS Integers, Sequences, FiniteSets, TLC

VARIABLES edid,      \* the byte sequence handed to the EDID decoders
          packed,    \* the three letters packed into its vendor field
          winOut,    \* outcome of parse_edid (windows/display.py), or Pending
          comOut,    \* outcome of parse_edid (common/edid.py), or Pending
          lnxOut,    \* outcome of _parse_edid (linux/display.py), or Pending
          platform,  \* which resolver backend the scenario is for
          rawSegs,   \* the '#'-separated segments of the Windows location string
          raw,       \* the Windows location string: None, or Some(characters)
          pciOut,    \* outcome of format_pci_path, or Pending
          acpiOut,   \* outcome of format_acpi_path, or Pending
          acpiFile,  \* <device>/firmware_node/path: None (unreadable) or Some(text)
          ueventFile,    \* <device>/uevent: None (unreadable) or Some(text)
          pciRootExists, \* os.path.exists("/sys/bus/pci/devices")
          registry,  \* the entries of /sys/bus/pci/devices in os.listdir order
          chain,     \* the bridges above the device, root first, then the device
          linOut,    \* outcome of pci_from_acpi_linux, or Pending
          result_code,   \* what GetDisplayPathInfo returns to _fetch_connector_info
          enumerates,    \* whether EnumDisplayMonitors invokes the callback at all
          monitors,  \* the active monitors in enumeration order
          display_info,  \* the DisplayInfo object fetch_display_info_internal fills
          enumerated,    \* how many monitors the callback has been invoked for
          fetchPc,   \* the position of fetch_display_info_internal
          propType,  \* the c_ulong that is the default of the parameter propType
          propBuffSize,  \* the c_ulong that is the default of propBuffSize
          calls,     \* the calls of CM_Get_DevNode_PropertyW in progress, per caller
          gfxRoot,   \* os.path.exists(PCI_ROOT_PATH) in fetch_graphics_info
          pciDevices,    \* os.listdir(PCI_ROOT_PATH): the devices and what their files hold
          graphics_info, \* the GraphicsInfo object fetch_graphics_info fills
          visited,   \* how many devices the loop has gone through
          gfxPc,     \* the position of fetch_graphics_info
          setupapi,  \* what the SetupAPI calls of get_edid_by_hwid will answer
          lookup,    \* the locals and the position of get_edid_by_hwid
          handles    \* the handles the OS gave out, and those handed back to it

edidVars == <<edid, packed, winOut, comOut, lnxOut>>
linVars == <<acpiFile, ueventFile, pciRootExists, registry, chain, linOut>>
pathVars == <<platform, rawSegs, raw, pciOut, acpiOut,
              acpiFile, ueventFile, pciRootExists, registry, chain, linOut>>
displayVars == <<result_code, enumerates, monitors, display_info, enumerated, fetchPc>>
propVars == <<propType, propBuffSize, calls>>
gfxVars == <<gfxRoot, pciDevices, graphics_info, visited, gfxPc>>
hwidVars == <<setupapi, lookup, handles>>
vars == <<edid, packed, winOut, comOut, lnxOut, platform, rawSegs, raw, pciOut, acpiOut,
          acpiFile, ueventFile, pciRootExists, registry, chain, linOut,
          result_code, enumerates, monitors, display_info, enumerated, fetchPc,
          propType, propBuffSize, calls,
          gfxRoot, pciDevices, graphics_info, visited, gfxPc,
          setupapi, lookup, handles>>

None == <<>>
Some(v) == <<v>>
Pending == [kind |-> "pending"]
\* the value a resolver returned
Returned(v) == [kind |-> "returned", value |-> v]
\* the exception that left a resolver
Raised(exc) == [kind |-> "raised", exc |-> exc]

Min(a, b) == IF a < b THEN a ELSE b

\* d[i] for 0 <= i < len(d)
At(d, i) == d[i + 1]

\* d[a:b]: Python slicing clips both ends to the length
Slice(d, a, b) == SubSeq(d, Min(a, Len(d)) + 1, Min(b, Len(d)))

(***************************************************************************)
(* windows/display.py                                                      *)
(***************************************************************************)
_EDID_MIN_LENGTH == 128
_EDID_VENDOR_OFFSET == 8
_EDID_PRODUCT_OFFSET == 10
_EDID_DESCRIPTOR_BASE_OFFSET == 72
_EDID_DESCRIPTOR_SIZE == 18
_EDID_DESCRIPTOR_COUNT == 3
_EDID_WIDTH_CM_OFFSET == 21
_EDID_HEIGHT_CM_OFFSET == 22
_EDID_SERIAL_MARKER == <<0, 0, 0, 255>>
_EDID_NAME_MARKER == <<0, 0, 0, 252>>

\* str.isspace() for the code points below U+0800
IsSpace(c) == c \in (9..13) \cup (28..32) \cup {133, 160}

RECURSIVE LStrip(_)
LStrip(t) == IF t # <<>> /\ IsSpace(Head(t)) THEN LStrip(Tail(t)) ELSE t

RECURSIVE RStrip(_)
RStrip(t) ==
    IF t # <<>> /\ IsSpace(t[Len(t)]) THEN RStrip(SubSeq(t, 1, Len(t) - 1)) ELSE t

\* str.strip()
Strip(t) == RStrip(LStrip(t))

\* b.split(b"\x0a")[0]: the bytes before the first 0x0A
RECURSIVE UpToNewline(_)
UpToNewline(b) ==
    IF b = <<>> \/ Head(b) = 10 THEN <<>> ELSE <<Head(b)>> \o UpToNewline(Tail(b))

\* bytes.decode(errors="ignore"): UTF-8, undecodable bytes dropped.  One-byte
\* and two-byte sequences are decoded; lead bytes 0xE0..0xF4 do not occur in
\* the inputs of this model.
RECURSIVE DecodeIgnore(_)
DecodeIgnore(b) ==
    IF b = <<>> THEN <<>>
    ELSE IF Head(b) < 128 THEN <<Head(b)>> \o DecodeIgnore(Tail(b))
    ELSE IF /\ Head(b) \in 194..223
            /\ Len(b) >= 2
            /\ b[2] \in 128..191
         THEN <<(Head(b) - 192) * 64 + (b[2] - 128)>> \o DecodeIgnore(SubSeq(b, 3, Len(b)))
    ELSE DecodeIgnore(Tail(b))

_extract_descriptor_text(descriptor, marker) ==
    IF Slice(descriptor, 0, 4) # marker THEN None
    ELSE LET raw_text == UpToNewline(Slice(descriptor, 5, 18))
             text == Strip(DecodeIgnore(raw_text))
         IN  IF text # <<>> THEN Some(text) ELSE None

\* a decoder that maps group 0 to 'A' (offset ord('A') instead of ord('A') - 1)
DecodeManufacturerOffByOne(vendor_id) ==
    << ((vendor_id \div 1024) % 32) + 65,
       ((vendor_id \div 32) % 32) + 65,
       (vendor_id % 32) + 65 >>

\* chr(((vendor_id >> s) & 0x1F) + ord('A') - 1) for s = 10, 5, 0
_decode_manufacturer_code(vendor_id) ==
    << ((vendor_id \div 1024) % 32) + 65 - 1,
       ((vendor_id \div 32) % 32) + 65 - 1,
       (vendor_id % 32) + 65 - 1 >>

\* round(sqrt(w^2 + h^2) / 2.54): the n with 2.54 (n - 1/2) < sqrt(s) < 2.54 (n + 1/2),
\* compared after squaring and scaling by 100^2 (no tie is possible, 127 is odd)
_calculate_diagonal_inches(width_cm, height_cm) ==
    IF width_cm <= 0 \/ height_cm <= 0 THEN 0
    ELSE LET s == (width_cm * width_cm + height_cm * height_cm) * 10000
         IN  CHOOSE n \in 0..150 :
                /\ s < (127 * (2 * n + 1)) * (127 * (2 * n + 1))
                /\ n > 0 => s > (127 * (2 * n - 1)) * (127 * (2 * n - 1))

\* the loop of parse_edid over the descriptors i.._EDID_DESCRIPTOR_COUNT-1
RECURSIVE WinScan(_, _, _, _)
WinScan(e, i, serial, name) ==
    IF i >= _EDID_DESCRIPTOR_COUNT THEN [serial |-> serial, name |-> name]
    ELSE LET offset == _EDID_DESCRIPTOR_BASE_OFFSET + (i * _EDID_DESCRIPTOR_SIZE)
             descriptor == Slice(e, offset, offset + _EDID_DESCRIPTOR_SIZE)
             serial2 == IF serial = None
                        THEN _extract_descriptor_text(descriptor, _EDID_SERIAL_MARKER)
                        ELSE serial
             name2 == IF name = None
                      THEN _extract_descriptor_text(descriptor, _EDID_NAME_MARKER)
                      ELSE name
         IN  WinScan(e, i + 1, serial2, name2)

\* a parse_edid that falls back to the numeric serial field at bytes 12..15
\* (its base-256 digits, most significant first) when no descriptor gives one
WinParseEdidNumericSerial(e) ==
    IF Len(e) < _EDID_MIN_LENGTH THEN [kind |-> "None"]
    ELSE LET vendor_id == At(e, _EDID_VENDOR_OFFSET) * 256 + At(e, _EDID_VENDOR_OFFSET + 1)
             product_id == At(e, _EDID_PRODUCT_OFFSET) + At(e, _EDID_PRODUCT_OFFSET + 1) * 256
             found == WinScan(e, 0, None, None)
         IN  [kind |-> "dict",
              manufacturer_code |-> _decode_manufacturer_code(vendor_id),
              vendor_id |-> vendor_id,
              product_id |-> product_id,
              serial |-> IF found.serial = None
                         THEN Some(<<At(e, 15), At(e, 14), At(e, 13), At(e, 12)>>)
                         ELSE found.serial,
              name |-> found.name,
              inches |-> _calculate_diagonal_inches(At(e, _EDID_WIDTH_CM_OFFSET),
                                                    At(e, _EDID_HEIGHT_CM_OFFSET))]

WinParseEdid(e) ==
    IF Len(e) < _EDID_MIN_LENGTH THEN [kind |-> "None"]
    ELSE LET vendor_id == At(e, _EDID_VENDOR_OFFSET) * 256 + At(e, _EDID_VENDOR_OFFSET + 1)
             product_id == At(e, _EDID_PRODUCT_OFFSET) + At(e, _EDID_PRODUCT_OFFSET + 1) * 256
             found == WinScan(e, 0, None, None)
         IN  [kind |-> "dict",
              manufacturer_code |-> _decode_manufacturer_code(vendor_id),
              vendor_id |-> vendor_id,
              product_id |-> product_id,
              serial |-> found.serial,
              name |-> found.name,
              inches |-> _calculate_diagonal_inches(At(e, _EDID_WIDTH_CM_OFFSET),
                                                    At(e, _EDID_HEIGHT_CM_OFFSET))]

(***************************************************************************)
(* common/edid.py                                                          *)
(***************************************************************************)
\* BIT_DEPTH_ENUM.get(k, "Undefined")
BIT_DEPTH_ENUM(k) ==
    CASE k = 1 -> "6" [] k = 2 -> "8" [] k = 3 -> "10"
      [] k = 4 -> "12" [] k = 5 -> "14" [] k = 6 -> "16"
      [] OTHER -> "Undefined"

\* INTERFACE_ENUM.get(k, "Unknown")
INTERFACE_ENUM(k) ==
    CASE k = 0 -> "Undefined" [] k = 1 -> "DVI" [] k = 2 -> "HDMI"
      [] k = 3 -> "HDMI (B)" [] k = 4 -> "MDDI" [] k = 5 -> "DisplayPort"
      [] OTHER -> "Unknown"

DESCRIPTOR_TAG_ENUM == {255, 254, 252}

\* _get_bits(byte, start_bit, end_bit) on a one-byte value: bits are numbered
\* from the most significant one
_get_bits(byte, start_bit, end_bit) ==
    (byte \div (2 ^ (8 - end_bit))) % (2 ^ (end_bit - start_bit))

\* round(pixel_clock_hz / denom, 2), in hundredths.  The quotient is taken
\* digit by digit so that every intermediate value fits 32 bits; an exact tie
\* is rounded to the even hundredth, as round() does for the ties a float
\* represents exactly.
RoundedRate(pixel_clock_hz, denom) ==
    LET q == pixel_clock_hz \div denom
        r0 == pixel_clock_hz % denom
        d1 == (r0 * 10) \div denom
        r1 == (r0 * 10) % denom
        d2 == (r1 * 10) \div denom
        r2 == (r1 * 10) % denom
        down == q * 100 + d1 * 10 + d2
    IN  IF 2 * r2 > denom THEN down + 1
        ELSE IF 2 * r2 = denom /\ down % 2 = 1 THEN down + 1
        ELSE down

\* a key that puts the refresh rate before the area
KeyLessRateFirst(a, b) ==
    \/ a[3] < b[3]
    \/ a[3] = b[3] /\ a[1] * a[2] < b[1] * b[2]

\* key=lambda x: (x[0] * x[1], x[2]), compared as Python compares tuples
KeyLess(a, b) ==
    \/ a[1] * a[2] < b[1] * b[2]
    \/ a[1] * a[2] = b[1] * b[2] /\ a[3] < b[3]

\* a max that returns the second argument when the keys are equal
MaxByKeyLast(a, b) == IF KeyLess(b, a) THEN a ELSE b

\* max(a, b, key=...): the first argument unless the second has a larger key
MaxByKey(a, b) == IF KeyLess(a, b) THEN b ELSE a

\* the decoded (horiz, vert, round(refresh_rate, 2)) of a timing block whose
\* totals are not zero
TimingOf(block) ==
    LET pixel_clock_hz == (block[1] + block[2] * 256) * 10000
        horiz == (block[5] \div 16) * 256 + block[3]
        vert == (block[8] \div 16) * 256 + block[6]
        h_blank == (block[5] % 16) * 256 + block[4]
        v_blank == (block[8] % 16) * 256 + block[7]
    IN  <<horiz, vert, RoundedRate(pixel_clock_hz, (horiz + h_blank) * (vert + v_blank))>>

TimingDenominator(block) ==
    LET horiz == (block[5] \div 16) * 256 + block[3]
        vert == (block[8] \div 16) * 256 + block[6]
        h_blank == (block[5] % 16) * 256 + block[4]
        v_blank == (block[8] % 16) * 256 + block[7]
    IN  (horiz + h_blank) * (vert + v_blank)

\* bytes.decode("ascii") raises UnicodeDecodeError on a byte >= 0x80
IsAscii(b) == \A i \in 1..Len(b) : b[i] < 128

\* one iteration of the descriptor loop of parse_edid; st carries the loop's
\* variables and exc, the exception raised so far ("" for none)
ComBlock(e, block_start, st) ==
    LET block == Slice(e, block_start, block_start + 18)
    IN  IF st.exc # "" THEN st
        ELSE IF Slice(block, 0, 2) = <<0, 0>>
        THEN IF Len(block) <= 3 THEN [st EXCEPT !.exc = "IndexError"]
             ELSE LET tag == At(block, 3)
                      payload == Slice(block, 5, Len(block))
                  IN  IF tag \in DESCRIPTOR_TAG_ENUM /\ tag \in {255, 252}
                      THEN IF ~IsAscii(payload)
                           THEN [st EXCEPT !.exc = "UnicodeDecodeError"]
                           ELSE IF tag = 255
                                THEN [st EXCEPT !.serial_number = Some(Strip(payload))]
                                ELSE [st EXCEPT !.name = Some(Strip(payload))]
                      ELSE st
        \* "if not module.resolution: continue": module.resolution is always a
        \* ResolutionInfo object (default_factory, or the one assigned for a
        \* digital input), and a model object is truthy
        ELSE IF Len(block) < 8 THEN [st EXCEPT !.exc = "IndexError"]
        ELSE IF TimingDenominator(block) = 0 THEN [st EXCEPT !.exc = "ZeroDivisionError"]
        ELSE [st EXCEPT !.resolution = MaxByKey(st.resolution, TimingOf(block))]

\* for block_start in range(0x36, 0x6d, 18)
RECURSIVE ComScan(_, _, _)
ComScan(e, block_start, st) ==
    IF block_start >= 109 THEN st
    ELSE ComScan(e, block_start + 18, ComBlock(e, block_start, st))

ComParseEdid(e) ==
    IF Len(e) <= 17 THEN [kind |-> "IndexError"]        \* edid_data[0x11]
    ELSE IF Len(e) <= 20 THEN [kind |-> "IndexError"]   \* edid_data[0x14]
    ELSE LET manuf_bits == (IF Len(e) > 8 THEN At(e, 8) ELSE 0) * 256
                              + (IF Len(e) > 9 THEN At(e, 9) ELSE 0)
             input_type == At(e, 20)
             digital == (input_type \div 128 = 1)
             st == ComScan(e, 54, [exc |-> "", serial_number |-> None, name |-> None,
                                   resolution |-> <<0, 0, 0>>])
             reported == (st.resolution # <<0, 0, 0>>)
         IN  IF st.exc # "" THEN [kind |-> st.exc]
             ELSE [kind |-> "module",
                   year |-> At(e, 17) + 1990,
                   manufacturer_code |-> << ((manuf_bits \div 1024) % 32) + 64,
                                            ((manuf_bits \div 32) % 32) + 64,
                                            (manuf_bits % 32) + 64 >>,
                   bit_depth |-> IF digital
                                 THEN Some(BIT_DEPTH_ENUM(_get_bits(input_type, 1, 5)))
                                 ELSE None,
                   interface |-> IF digital THEN Some(INTERFACE_ENUM(input_type % 8)) ELSE None,
                   serial_number |-> st.serial_number,
                   name |-> st.name,
                   width |-> IF reported THEN Some(st.resolution[1]) ELSE None,
                   height |-> IF reported THEN Some(st.resolution[2]) ELSE None,
                   refresh_rate |-> IF reported THEN Some(st.resolution[3]) ELSE None]

(***************************************************************************)
(* linux/display.py                                                        *)
(***************************************************************************)
\* _get_bits(data, start_bit, end_bit) of linux/display.py on a bytes object of
\* total_bits bits whose big-endian value is value; the caller checks
\* end_bit <= total_bits, the bound _get_bits raises ValueError beyond
GetBitsOfBytes(value, total_bits, start_bit, end_bit) ==
    (value \div (2 ^ (total_bits - end_bit))) % (2 ^ (end_bit - start_bit))

\* one iteration of the descriptor loop of _parse_edid: the loop of the common
\* decoder, with a print of module.product_name, an attribute no statement
\* sets, after the name is stored
LinBlock(e, block_start, st) ==
    LET block == Slice(e, block_start, block_start + 18)
    IN  IF st.exc # "" THEN st
        ELSE IF Slice(block, 0, 2) = <<0, 0>>
        THEN IF Len(block) <= 3 THEN [st EXCEPT !.exc = "IndexError"]
             ELSE LET tag == At(block, 3)
                      payload == Slice(block, 5, Len(block))
                  IN  IF tag \notin DESCRIPTOR_TAG_ENUM THEN st
                      ELSE IF tag = 255
                      THEN IF ~IsAscii(payload)
                           THEN [st EXCEPT !.exc = "UnicodeDecodeError"]
                           ELSE [st EXCEPT !.serial_number = Some(Strip(payload))]
                      ELSE IF tag = 252
                      THEN IF ~IsAscii(payload)
                           THEN [st EXCEPT !.exc = "UnicodeDecodeError"]
                           ELSE [st EXCEPT !.name = Some(Strip(payload)),
                                           !.exc = "AttributeError"]
                      ELSE st
        ELSE IF Len(block) < 8 THEN [st EXCEPT !.exc = "IndexError"]
        ELSE IF TimingDenominator(block) = 0 THEN [st EXCEPT !.exc = "ZeroDivisionError"]
        ELSE [st EXCEPT !.resolution = MaxByKey(st.resolution, TimingOf(block))]

\* for block_start in range(0x36, 0x6d, 18)
RECURSIVE LinScan(_, _, _)
LinScan(e, block_start, st) ==
    IF block_start >= 109 THEN st
    ELSE LinScan(e, block_start + 18, LinBlock(e, block_start, st))

_parse_edid(e) ==
    IF Len(e) <= 17 THEN [kind |-> "IndexError"]        \* edid_data[0x11]
    \* manuf_bits = edid_data[0x15:0x17] holds fewer than 16 bits
    ELSE IF Len(e) < 23 THEN [kind |-> "ValueError"]
    ELSE LET manuf_bits == At(e, 21) * 256 + At(e, 22)
             input_type == At(e, 20)
             digital == (input_type \div 128 = 1)
             st == LinScan(e, 54, [exc |-> "", serial_number |-> None, name |-> None,
                                   resolution |-> <<0, 0, 0>>])
             reported == (st.resolution # <<0, 0, 0>>)
         IN  IF st.exc # "" THEN [kind |-> st.exc]
             ELSE [kind |-> "module",
                   year |-> At(e, 17) + 1990,
                   manufacturer_code |-> << GetBitsOfBytes(manuf_bits, 16, 1, 6) + 65 - 1,
                                            GetBitsOfBytes(manuf_bits, 16, 6, 11) + 65 - 1,
                                            GetBitsOfBytes(manuf_bits, 16, 11, 16) + 65 - 1 >>,
                   bit_depth |-> IF digital
                                 THEN Some(BIT_DEPTH_ENUM(_get_bits(input_type, 1, 5)))
                                 ELSE None,
                   interface |-> IF digital THEN Some(INTERFACE_ENUM(input_type % 8)) ELSE None,
                   serial_number |-> st.serial_number,
                   name |-> st.name,
                   width |-> IF reported THEN Some(st.resolution[1]) ELSE None,
                   height |-> IF reported THEN Some(st.resolution[2]) ELSE None,
                   refresh_rate |-> IF reported THEN Some(st.resolution[3]) ELSE None]

(***************************************************************************)
(* EDID blocks handed to the decoders                                      *)
(***************************************************************************)
\* bytes accepted beyond the 128-byte base block
MaxExtra == 2

\* an 18-byte display descriptor: 00 00 00 <tag> 00 <text> 0A, padded with spaces
DisplayDescriptor(tag, text) ==
    LET b == <<0, 0, 0, tag, 0>> \o text \o <<10>>
    IN  b \o [i \in 1..(18 - Len(b)) |-> 32]

\* an 18-byte timing descriptor, packed as TimingOf unpacks it
TimingDescriptor(clock, horiz, h_blank, vert, v_blank) ==
    << clock % 256, clock \div 256,
       horiz % 256, h_blank % 256, (horiz \div 256) * 16 + (h_blank \div 256),
       vert % 256, v_blank % 256, (vert \div 256) * 16 + (v_blank \div 256) >>
    \o [i \in 1..10 |-> 0]

ZeroBlock == [i \in 1..18 |-> 0]
NameBlock == DisplayDescriptor(252, <<84, 86>>)            \* "TV"
SerialBlock == DisplayDescriptor(255, <<83, 49>>)          \* "S1"
T1080p60 == TimingDescriptor(14850, 1920, 280, 1080, 45)
T1440p60 == TimingDescriptor(24480, 2560, 160, 1440, 60)
T1080p144 == TimingDescriptor(31680, 1920, 80, 1080, 20)
\* 1080x1920@60: the area and the rate of T1080p60, rotated
TPortrait60 == TimingDescriptor(14850, 1080, 170, 1920, 60)

Blocks ==
    { ZeroBlock, NameBlock, SerialBlock,
      DisplayDescriptor(252, <<65, 195, 66>>),     \* "A", 0xC3, "B"
      DisplayDescriptor(16, <<>>),                 \* tag 0x10
      T1080p60, T1440p60, T1080p144,
      TimingDescriptor(3000, 0, 1000, 480, 20),    \* no active pixels in a line
      TimingDescriptor(1, 0, 0, 0, 0) }            \* both totals zero

\* descriptors whose text is cut, empty or not ASCII
ExtraBlocks ==
    { ZeroBlock, SerialBlock,
      \* the name descriptor of build_minimal_edid: "TEST-MONITOR", 0x0A
      <<0, 0, 0, 252, 0, 84, 69, 83, 84, 45, 77, 79, 78, 73, 84, 79, 82, 10>>,
      DisplayDescriptor(252, <<>>),                      \* no text before 0x0A
      DisplayDescriptor(252, <<84, 86, 10, 88, 89>>),    \* "TV", 0x0A, "XY"
      DisplayDescriptor(252, <<65, 195, 169>>) }         \* "A", U+00E9 in UTF-8

\* the 5-bit groups tried beyond the letters: 0, both ends of 1..26, 27 and 31
Groups == {0, 1, 26, 27, 31}

\* contents of the numeric serial field at bytes 12..15: zero, and 0xDEADBEEF
\* little-endian as build_minimal_edid stores it

\* d with the bytes 12..15 replaced by field
WithSerialField(d, field) ==
    [i \in 1..Len(d) |-> IF i - 1 \in 12..15 THEN field[i - 12] ELSE d[i]]

\* ((S1-64)<<10)|((S2-64)<<5)|(S3-64) for the code points S of three letters
PackVendor(S) == (S[1] - 64) * 1024 + (S[2] - 64) * 32 + (S[3] - 64)

Letter == 65..90

\* a base block: vendor big-endian at 8..9, product 0x1234 little-endian at
\* 10..11, input type at 0x14, 60 cm x 34 cm, the four descriptors from 0x36
BaseEdid(vendor, input_type, slots) ==
    [i \in 1..128 |->
        LET o == i - 1
        IN  CASE o = 8 -> vendor \div 256
              [] o = 9 -> vendor % 256
              [] o = 10 -> 52
              [] o = 11 -> 18
              [] o = 17 -> 30
              [] o = 20 -> input_type
              [] o = 21 -> 60
              [] o = 22 -> 34
              [] o \in 54..125 -> slots[((o - 54) \div 18) + 1][((o - 54) % 18) + 1]
              [] OTHER -> 0]

\* the first n bytes of d, zero-extended beyond its end
Resize(d, n) == [i \in 1..n |-> IF i <= Len(d) THEN d[i] ELSE 0]

\* Status(type=t): a status of type t that holds no message yet
Status(type) == [type |-> type, messages |-> <<>>]
\* Status(): what ComponentInfo's default_factory puts into a new record
DefaultStatus == Status("SUCCESS")
\* DisplayInfo(): the default status, no module, no _connectorInfo attribute
DisplayInfo == [status |-> DefaultStatus, modules |-> <<>>, _connectorInfo |-> None]
\* GraphicsInfo(): the default status and no module
GraphicsInfo == [status |-> DefaultStatus, modules |-> <<>>]

Analog == 0
Digital == 165     \* 1 0100 101: digital, 12 bits per channel, DisplayPort

\* the resolvers' variables while the EDID decoders run, and conversely
PathIdle ==
    /\ rawSegs = <<>> /\ raw = None /\ pciOut = Pending /\ acpiOut = Pending
    /\ acpiFile = None /\ ueventFile = None /\ pciRootExists = FALSE
    /\ registry = <<>> /\ chain = <<>> /\ linOut = Pending

EdidIdle ==
    /\ edid = <<>> /\ packed = <<>>
    /\ winOut = Pending /\ comOut = Pending /\ lnxOut = Pending

\* the monitor enumeration's variables while the decoders or the resolvers run
DisplayIdle ==
    /\ result_code = "STATUS_OK" /\ enumerates = FALSE /\ monitors = <<>>
    /\ display_info = DisplayInfo /\ enumerated = 0 /\ fetchPc = "start"

\* the variables of the subsystems other than `active`, at rest
OtherIdle(active) ==
    /\ active # "property" => propType = 0 /\ propBuffSize = 0 /\ calls = <<>>
    /\ active # "graphics" =>
           /\ gfxRoot = FALSE /\ pciDevices = <<>> /\ graphics_info = GraphicsInfo
           /\ visited = 0 /\ gfxPc = "start"
    /\ active # "hwid" => setupapi = <<>> /\ lookup = <<>> /\ handles = <<>>

EdidInit ==
    /\ platform = "edid"
    /\ PathIdle
    /\ DisplayIdle
    /\ OtherIdle("edid")
    /\ winOut = Pending
    /\ comOut = Pending
    /\ lnxOut = Pending
    /\ \/ \E S \in Letter \X Letter \X Letter :
             /\ packed = S
             /\ edid = BaseEdid(PackVendor(S), Digital,
                                <<ZeroBlock, ZeroBlock, ZeroBlock, ZeroBlock>>)
       \/ \E slots \in Blocks \X Blocks \X Blocks \X Blocks, input_type \in {Analog, Digital} :
             /\ packed = <<65, 66, 67>>
             /\ edid = BaseEdid(PackVendor(packed), input_type, slots)
       \/ \E n \in 0..(128 + MaxExtra),
             slots \in {<<NameBlock, T1080p60, SerialBlock, ZeroBlock>>,
                        <<T1080p60, NameBlock, SerialBlock, T1440p60>>} :
             /\ packed = <<65, 66, 67>>
             /\ edid = Resize(BaseEdid(PackVendor(packed), Digital, slots), n)
       \/ \E g \in Groups \X Groups \X Groups, msb \in {0, 1} :
             /\ packed = <<g[1] + 64, g[2] + 64, g[3] + 64>>
             /\ edid = BaseEdid(msb * 32768 + g[1] * 1024 + g[2] * 32 + g[3], Digital,
                                <<ZeroBlock, ZeroBlock, ZeroBlock, ZeroBlock>>)
       \/ \E a \in ExtraBlocks, b \in ExtraBlocks, c \in {ZeroBlock, SerialBlock},
             field \in {<<0, 0, 0, 0>>, <<239, 190, 173, 222>>} :
             /\ packed = <<65, 66, 67>>
             /\ edid = WithSerialField(BaseEdid(PackVendor(packed), Analog,
                                                <<a, b, c, ZeroBlock>>), field)
       \/ \E slots \in [1..4 -> {ZeroBlock, T1080p60, TPortrait60}] :
             /\ packed = <<65, 66, 67>>
             /\ edid = BaseEdid(PackVendor(packed), Digital, slots)

\* parse_edid of dumps/windows/display.py is applied to the block
ParseEdidWindows ==
    /\ platform = "edid"
    /\ winOut = Pending
    /\ winOut' = WinParseEdid(edid)
    /\ UNCHANGED <<edid, packed, comOut, lnxOut, pathVars, displayVars, propVars, gfxVars, hwidVars>>

\* parse_edid of dumps/common/edid.py is applied to the block
ParseEdidCommon ==
    /\ platform = "edid"
    /\ comOut = Pending
    /\ comOut' = ComParseEdid(edid)
    /\ UNCHANGED <<edid, packed, winOut, lnxOut, pathVars, displayVars, propVars, gfxVars, hwidVars>>

\* _parse_edid of dumps/linux/display.py is applied to the block
ParseEdidLinux ==
    /\ platform = "edid"
    /\ lnxOut = Pending
    /\ lnxOut' = _parse_edid(edid)
    /\ UNCHANGED <<edid, packed, winOut, comOut, pathVars, displayVars, propVars, gfxVars, hwidVars>>

EdidNext == ParseEdidWindows \/ ParseEdidCommon \/ ParseEdidLinux

SpecEdid == EdidInit /\ [][EdidNext]_vars

(***************************************************************************)
(* Properties of the EDID decoders                                         *)
(***************************************************************************)
\* the k-th (0..3) 18-byte slot counted from offset 0x36
SlotBlock(e, k) == Slice(e, 54 + 18 * k, 54 + 18 * k + 18)

IsDisplaySlot(e, k) == Slice(SlotBlock(e, k), 0, 2) = <<0, 0>>
\* a slot the timing branch decodes: it reads the bytes 0..7 of the block
IsTimingSlot(e, k) == Len(SlotBlock(e, k)) >= 8 /\ ~IsDisplaySlot(e, k)
SlotBlocks(e) == {SlotBlock(e, k) : k \in 0..3}

WinDone == winOut # Pending
ComDone == comOut # Pending

\* C1: every byte sequence shorter than 128 bytes makes both decoders return
\* None (TooShort): no descriptor and no exception.
C1_TooShort ==
    Len(edid) < 128 =>
        /\ WinDone => winOut.kind = "None"
        /\ ComDone => comOut.kind = "None"

\* C2: the resolution parse_edid (common) reports is one of the timing
\* descriptors, none of them has a larger width*height, and none of the same
\* area has a higher rounded refresh rate; 1920x1080@60, 2560x1440@60 and
\* 1920x1080@144 give 2560x1440@60.
C2_BestResolution ==
    (comOut.kind = "module" /\ comOut.width # None) =>
        LET chosen == <<comOut.width[1], comOut.height[1], comOut.refresh_rate[1]>>
            considered == {TimingOf(SlotBlock(edid, k)) : k \in {j \in 0..3 : IsTimingSlot(edid, j)}}
        IN  /\ chosen \in considered
            /\ \A c \in considered :
                  \/ c[1] * c[2] < chosen[1] * chosen[2]
                  \/ c[1] * c[2] = chosen[1] * chosen[2] /\ c[3] <= chosen[3]
            /\ {T1080p60, T1440p60, T1080p144} \subseteq SlotBlocks(edid)
                  => chosen = <<2560, 1440, 6000>>

C2_Witness ==
    /\ comOut.kind = "module"
    /\ {T1080p60, T1440p60, T1080p144} \subseteq SlotBlocks(edid)
    /\ comOut.width = Some(2560)
    /\ comOut.height = Some(1440)
    /\ comOut.refresh_rate = Some(6000)

\* C3: three letters 'A'..'Z' packed as ((S1-64)<<10)|((S2-64)<<5)|(S3-64) and
\* stored big-endian at bytes 8..9 decode to the same three letters, in the
\* Windows decoder and in the common one.
C3_RoundTrip ==
    (Len(edid) >= 10 /\ At(edid, 8) * 256 + At(edid, 9) = PackVendor(packed)) =>
        /\ winOut.kind = "dict" => winOut.manufacturer_code = packed
        /\ comOut.kind = "module" => comOut.manufacturer_code = packed

C3_Witness ==
    /\ packed = <<90, 81, 77>>     \* "ZQM"
    /\ At(edid, 8) * 256 + At(edid, 9) = PackVendor(packed)
    /\ winOut.kind = "dict" /\ winOut.manufacturer_code = <<90, 81, 77>>
    /\ comOut.kind = "module" /\ comOut.manufacturer_code = <<90, 81, 77>>

\* C9: every byte sequence of at least 128 bytes makes both decoders return
\* a descriptor, whatever its content; no exception is raised.
C9_AlwaysDescriptor ==
    Len(edid) >= 128 =>
        /\ WinDone => winOut.kind = "dict"
        /\ ComDone => comOut.kind = "module"

\* the text of a display descriptor: bytes 5..17 up to the first 0x0A, the
\* bytes that are not ASCII dropped, surrounding whitespace removed
DescriptorText(block) ==
    Strip(SelectSeq(UpToNewline(Slice(block, 5, 18)), LAMBDA c : c < 128))

\* a descriptor whose payload is a non-empty ASCII text, then 0x0A and spaces
WellFormedText(block) ==
    LET payload == Slice(block, 5, 18)
        n == Len(UpToNewline(payload))
    IN  /\ IsAscii(payload)
        /\ DescriptorText(block) # <<>>
        /\ \A i \in (n + 2)..Len(payload) : payload[i] = 32

\* C10: a display descriptor tagged 0xFC (0xFF) in any one of the four slots
\* from 0x36, holding a well-formed text, is recognised by both decoders and
\* its text is the name (serial) they return.
C10_AnySlot ==
    \A k \in 0..3, tag \in {252, 255} :
        LET block == SlotBlock(edid, k)
            only == \A j \in 0..3 :
                        (IsDisplaySlot(edid, j) /\ At(SlotBlock(edid, j), 3) = tag) => j = k
            text == Some(DescriptorText(block))
        IN  (/\ Len(edid) >= 128 /\ IsDisplaySlot(edid, k) /\ At(block, 3) = tag /\ only
             /\ WellFormedText(block)) =>
               /\ winOut.kind = "dict" =>
                     IF tag = 252 THEN winOut.name = text ELSE winOut.serial = text
               /\ comOut.kind = "module" =>
                     IF tag = 252 THEN comOut.name = text ELSE comOut.serial_number = text

\* the three 5-bit groups of the big-endian value at bytes 8..9, each + 64
VendorFieldCode(e) ==
    LET v == At(e, 8) * 256 + At(e, 9)
    IN  <<((v \div 1024) % 32) + 64, ((v \div 32) % 32) + 64, (v % 32) + 64>>

\* C11: in every decoder variant (Windows, common, Linux) manufacturer_code is
\* the three 5-bit groups of the big-endian 16-bit value at bytes 8..9, each
\* mapped by group + 64 to a character, whatever the other bytes hold.
C11_VendorField ==
    Len(edid) >= 10 =>
        /\ winOut.kind = "dict" => winOut.manufacturer_code = VendorFieldCode(edid)
        /\ comOut.kind = "module" => comOut.manufacturer_code = VendorFieldCode(edid)
        /\ lnxOut.kind = "module" => lnxOut.manufacturer_code = VendorFieldCode(edid)

IsLetterCode(code) == Len(code) = 3 /\ \A i \in 1..3 : code[i] \in Letter

\* C12: whatever bytes 8..9 hold, the decoded manufacturer_code (Windows and
\* common decoder) is exactly three characters, each an uppercase letter
\* 'A'..'Z'.
C12_ThreeLetters ==
    /\ winOut.kind = "dict" => IsLetterCode(winOut.manufacturer_code)
    /\ comOut.kind = "module" => IsLetterCode(comOut.manufacturer_code)

\* what the claim reports for a descriptor: its text, absent when empty
ClaimedText(block) ==
    IF DescriptorText(block) = <<>> THEN None ELSE Some(DescriptorText(block))

\* slot k holds a display descriptor with the given tag
IsTaggedSlot(e, k, tag) ==
    /\ IsDisplaySlot(e, k)
    /\ Len(SlotBlock(e, k)) >= 4
    /\ At(SlotBlock(e, k), 3) = tag

\* C13: the text reported for a name (0xFC) or serial (0xFF) descriptor is
\* bytes 5..17 of the block cut at the first 0x0A, non-ASCII bytes dropped
\* rather than raising, surrounding whitespace stripped, and absent (None)
\* when empty; in the Windows decoder and in the common one.  Stated for a
\* slot both decoders scan that alone carries the tag.
C13_DescriptorText ==
    \A k \in 1..3, tag \in {252, 255} :
        LET block == SlotBlock(edid, k)
            only == \A j \in 0..3 : IsTaggedSlot(edid, j, tag) => j = k
            othersDecode == \A j \in (0..3) \ {k} :
                               (IsTaggedSlot(edid, j, 252) \/ IsTaggedSlot(edid, j, 255))
                                  => IsAscii(Slice(SlotBlock(edid, j), 5, 18))
        IN  (Len(edid) >= 128 /\ IsTaggedSlot(edid, k, tag) /\ only) =>
               /\ winOut.kind = "dict" =>
                     (IF tag = 252 THEN winOut.name ELSE winOut.serial) = ClaimedText(block)
               /\ (ComDone /\ othersDecode) => comOut.kind # "UnicodeDecodeError"
               /\ comOut.kind = "module" =>
                     (IF tag = 252 THEN comOut.name ELSE comOut.serial_number)
                        = ClaimedText(block)

C15_NumericSerial ==
    winOut.kind = "dict" =>
        winOut.serial = Some(<<At(edid, 15), At(edid, 14), At(edid, 13), At(edid, 12)>>)

(***************************************************************************)
(* windows/common.py                                                       *)
(***************************************************************************)
DecDigits == <<"0", "1", "2", "3", "4", "5", "6", "7", "8", "9">>
HexUpper == DecDigits \o <<"A", "B", "C", "D", "E", "F">>
HexLower == DecDigits \o <<"a", "b", "c", "d", "e", "f">>

\* \d and [0-9A-Fa-f]
DecSet == {DecDigits[i] : i \in 1..10}
HexSet == {HexUpper[i] : i \in 1..16} \cup {HexLower[i] : i \in 1..16}

\* the value of one digit character
DigitVal(c) == (CHOOSE i \in 1..16 : HexUpper[i] = c \/ HexLower[i] = c) - 1

\* int(s, base) for a non-empty string of digits of that base
RECURSIVE ParseInt(_, _)
ParseInt(s, base) ==
    IF s = <<>> THEN 0
    ELSE ParseInt(SubSeq(s, 1, Len(s) - 1), base) * base + DigitVal(s[Len(s)])

\* f"{n:X}" with the digit table HexUpper, hex(n)[2:] with HexLower
RECURSIVE FormatHex(_, _)
FormatHex(n, digits) ==
    IF n < 16 THEN <<digits[n + 1]>>
    ELSE FormatHex(n \div 16, digits) \o <<digits[(n % 16) + 1]>>

StartsWith(s, p) == Len(s) >= Len(p) /\ SubSeq(s, 1, Len(p)) = p

\* s.split(sep) for a one-character separator
RECURSIVE Split(_, _)
Split(s, sep) ==
    IF \A i \in 1..Len(s) : s[i] # sep THEN <<s>>
    ELSE LET i == CHOOSE j \in 1..Len(s) : s[j] = sep /\ \A k \in 1..(j - 1) : s[k] # sep
         IN  <<SubSeq(s, 1, i - 1)>> \o Split(SubSeq(s, i + 1, Len(s)), sep)

\* sep.join(parts)
RECURSIVE Join(_, _)
Join(parts, sep) ==
    IF parts = <<>> THEN <<>>
    ELSE IF Len(parts) = 1 THEN parts[1]
    ELSE parts[1] \o sep \o Join(Tail(parts), sep)

\* the number of leading characters of s that are in the class
RunIn(s, class) ==
    IF \A i \in 1..Len(s) : s[i] \in class THEN Len(s)
    ELSE CHOOSE n \in 0..(Len(s) - 1) :
            s[n + 1] \notin class /\ \A k \in 1..n : s[k] \in class

\* the number of leading characters of s that are not in the class
RunNotIn(s, class) ==
    IF \A i \in 1..Len(s) : s[i] \notin class THEN Len(s)
    ELSE CHOOSE n \in 0..(Len(s) - 1) :
            s[n + 1] \in class /\ \A k \in 1..n : s[k] \notin class

\* re.match(prefix + r'(<class>+)\)', seg): the captured group, or None.  The
\* greedy run of the class must be followed by ")" at once: a shorter run is
\* followed by a character of the class.
MatchGroup(seg, prefix, class) ==
    IF ~StartsWith(seg, prefix) THEN None
    ELSE LET rest == SubSeq(seg, Len(prefix) + 1, Len(seg))
             n == RunIn(rest, class)
         IN  IF n >= 1 /\ Len(rest) > n /\ rest[n + 1] = ")"
             THEN Some(SubSeq(rest, 1, n))
             ELSE None

\* the literal parts of the patterns and of the formatted segments
PCIROOT_OPEN == <<"P", "C", "I", "R", "O", "O", "T", "(">>
PCI_OPEN == <<"P", "C", "I", "(">>
ACPI_OPEN == <<"A", "C", "P", "I", "(">>
PCIROOT_OUT == <<"P", "c", "i", "R", "o", "o", "t", "(", "0", "x">>
PCI_OUT == <<"P", "c", "i", "(", "0", "x">>
COMMA_0X == <<",", "0", "x">>

\* the body of the loop of format_pci_path: what the segment appends to
\* formatted_parts
PciPart(seg) ==
    LET root_match == MatchGroup(seg, PCIROOT_OPEN, DecSet)
        pci_match == MatchGroup(seg, PCI_OPEN, HexSet)
    IN  IF root_match # None
        THEN <<PCIROOT_OUT \o FormatHex(ParseInt(root_match[1], 10), HexUpper) \o <<")">> >>
        ELSE IF pci_match # None
        THEN LET full_val == ParseInt(pci_match[1], 16)
                 device == full_val \div 256
                 function == full_val % 256
             IN  << PCI_OUT \o FormatHex(device, HexUpper) \o COMMA_0X
                            \o FormatHex(function, HexUpper) \o <<")">> >>
        ELSE <<>>

RECURSIVE PciParts(_)
PciParts(segments) ==
    IF segments = <<>> THEN <<>> ELSE PciPart(Head(segments)) \o PciParts(Tail(segments))

\* sys.int_info.default_max_str_digits: int(s) of a decimal string with more
\* digits raises ValueError (CPython 3.11 and later; base 16 has no limit)
INT_MAX_STR_DIGITS == 4300

\* int(root_match.group(1)) raises for the segment
RootTooLong(seg) ==
    LET root_match == MatchGroup(seg, PCIROOT_OPEN, DecSet)
    IN  root_match # None /\ Len(root_match[1]) > INT_MAX_STR_DIGITS

\* format_pci_path(raw_path); raw_path is None or Some(string).  No statement
\* of the function catches an exception.
format_pci_path(raw_path) ==
    IF raw_path = None \/ raw_path[1] = <<>> THEN Returned(None)
    ELSE LET segments == Split(raw_path[1], "#")
         IN  IF \E i \in 1..Len(segments) : RootTooLong(segments[i])
             THEN Raised("ValueError")
             ELSE Returned(Some(Join(PciParts(segments), <<"/">>)))

\* re.findall(r'ACPI\((.*?)\)', s): scanning from the left, a match starts
\* where "ACPI(" stands and the first ")" or newline after it is a ")"
AcpiOpenAt(s, i) == i + 4 <= Len(s) /\ SubSeq(s, i, i + 4) = ACPI_OPEN

RECURSIVE FindAcpi(_)
FindAcpi(s) ==
    IF \A i \in 1..Len(s) : ~AcpiOpenAt(s, i) THEN <<>>
    ELSE LET i == CHOOSE j \in 1..Len(s) :
                     AcpiOpenAt(s, j) /\ \A k \in 1..(j - 1) : ~AcpiOpenAt(s, k)
             rest == SubSeq(s, i + Len(ACPI_OPEN), Len(s))
             n == RunNotIn(rest, {")", "\n"})
         IN  IF Len(rest) > n /\ rest[n + 1] = ")"
             THEN <<SubSeq(rest, 1, n)>> \o FindAcpi(SubSeq(rest, n + 2, Len(rest)))
             ELSE FindAcpi(SubSeq(s, i + 1, Len(s)))

\* a format_acpi_path that forgets the leading backslash
FormatAcpiNoBackslash(raw_path) ==
    IF raw_path = None \/ raw_path[1] = <<>> THEN None
    ELSE LET segments == FindAcpi(raw_path[1])
         IN  IF segments = <<>> THEN raw_path
             ELSE Some(Join(segments, <<".">>))

\* a format_acpi_path without the fallback to the raw string
FormatAcpiNoFallback(raw_path) ==
    IF raw_path = None \/ raw_path[1] = <<>> THEN None
    ELSE Some(<<"\\">> \o Join(FindAcpi(raw_path[1]), <<".">>))

\* a format_acpi_path whose fallback puts the backslash before the raw string
FormatAcpiPrefixedFallback(raw_path) ==
    IF raw_path = None \/ raw_path[1] = <<>> THEN None
    ELSE LET segments == FindAcpi(raw_path[1])
         IN  IF segments = <<>> THEN Some(<<"\\">> \o raw_path[1])
             ELSE Some(<<"\\">> \o Join(segments, <<".">>))

\* format_acpi_path(raw_path)
format_acpi_path(raw_path) ==
    IF raw_path = None \/ raw_path[1] = <<>> THEN None
    ELSE LET segments == FindAcpi(raw_path[1])
         IN  IF segments = <<>> THEN raw_path
             ELSE Some(<<"\\">> \o Join(segments, <<".">>))

(***************************************************************************)
(* linux/common.py                                                         *)
(***************************************************************************)
\* the whitespace characters of the file texts
SpaceChars == {" ", "\n", "\t", "\r"}

\* str.strip() on a string of characters
StripChars(t) ==
    LET lead == RunIn(t, SpaceChars)
        rest == SubSeq(t, lead + 1, Len(t))
        keep == CHOOSE n \in 0..Len(rest) :
                    /\ n > 0 => rest[n] \notin SpaceChars
                    /\ \A k \in (n + 1)..Len(rest) : rest[k] \in SpaceChars
    IN  SubSeq(rest, 1, keep)

UpperLetters == <<"A", "B", "C", "D", "E", "F", "G", "H", "I", "J", "K", "L", "M", "N", "O", "P", "Q", "R", "S", "T", "U", "V", "W", "X", "Y", "Z">>

\* str.lower(), character by character
LowerChar(c) ==
    IF \E i \in 1..26 : UpperLetters[i] = c
    THEN <<"a", "b", "c", "d", "e", "f", "g", "h", "i", "j", "k", "l", "m",
           "n", "o", "p", "q", "r", "s", "t", "u", "v", "w", "x", "y", "z">>
            [CHOOSE i \in 1..26 : UpperLetters[i] = c]
    ELSE c

LowerStr(t) == [i \in 1..Len(t) |-> LowerChar(t[i])]

PCI_SLOT_NAME_KEY == <<"p", "c", "i", "_", "s", "l", "o", "t", "_", "n", "a", "m", "e", "=">>

\* the loop over pci_uevent.splitlines(): the text after the first "=" of the
\* first line that starts with "pci_slot_name=" in any case, or None
RECURSIVE FindSlot(_)
FindSlot(lines) ==
    IF lines = <<>> THEN None
    ELSE IF StartsWith(LowerStr(Head(lines)), PCI_SLOT_NAME_KEY)
    THEN Some(SubSeq(Head(lines), Len(PCI_SLOT_NAME_KEY) + 1, Len(Head(lines))))
    ELSE FindSlot(Tail(lines))

\* int(n, 16) succeeds; the texts of this model hold no sign, prefix, space or
\* underscore, which int() would also accept
IsHexString(n) == n # <<>> /\ \A i \in 1..Len(n) : n[i] \in HexSet

\* hex(v)
Hex(v) == <<"0", "x">> \o FormatHex(v, HexLower)

RECURSIVE HexAll(_)
HexAll(parts) ==
    IF parts = <<>> THEN <<>> ELSE <<Hex(ParseInt(Head(parts), 16))>> \o HexAll(Tail(parts))

\* _get_address_components(slot_name): the tuple of hex strings, or None
\* after a ValueError
_get_address_components(slot_name) ==
    LET fields == Split(slot_name, ":")
        device_func == fields[Len(fields)]
        parts == Split(device_func, ".")
    IN  IF \A i \in 1..Len(parts) : IsHexString(parts[i])
        THEN Some(HexAll(parts))
        ELSE None

\* the characters of the path components in code point order
Ord(c) ==
    LET CharOrder == <<",", "0", "1", "2", "3", "4", "5", "6", "7", "8", "9",
                       "a", "b", "c", "d", "e", "f", "x">>
    IN  CHOOSE i \in 1..Len(CharOrder) : CharOrder[i] = c

\* a < b for Python strings
RECURSIVE StrLess(_, _)
StrLess(a, b) ==
    IF b = <<>> THEN FALSE
    ELSE IF a = <<>> THEN TRUE
    ELSE IF Head(a) = Head(b) THEN StrLess(Tail(a), Tail(b))
    ELSE Ord(Head(a)) < Ord(Head(b))

\* insertion of x into a descending list
RECURSIVE InsertDesc(_, _)
InsertDesc(x, sorted) ==
    IF sorted = <<>> THEN <<x>>
    ELSE IF StrLess(Head(sorted), x) THEN <<x>> \o sorted
    ELSE <<Head(sorted)>> \o InsertDesc(x, Tail(sorted))

\* sorted(paths, reverse=True)
RECURSIVE SortedReverse(_)
SortedReverse(paths) ==
    IF paths = <<>> THEN <<>>
    ELSE InsertDesc(paths[Len(paths)], SortedReverse(SubSeq(paths, 1, Len(paths) - 1)))

\* what a component tuple appends to paths: ",".join(components), when the
\* tuple is not None (a tuple of split parts is never empty)
PathEntry(components) ==
    IF components # None THEN <<Join(components[1], <<",">>)>> ELSE <<>>

\* a search for the parent that looks at the first directory entry only
ParentEntriesFirstOnly(entries, slot) ==
    IF entries = <<>> THEN <<>>
    ELSE LET device == Head(entries)
             found == device.listing # None /\ slot \in device.listing[1]
         IN  IF found THEN PathEntry(_get_address_components(device.name)) ELSE <<>>

\* the loop over os.listdir(pci_root): the entries of the devices whose
\* directory lists the slot; a directory that cannot be listed is skipped
RECURSIVE ParentEntries(_, _)
ParentEntries(entries, slot) ==
    IF entries = <<>> THEN <<>>
    ELSE LET device == Head(entries)
             found == device.listing # None /\ slot \in device.listing[1]
         IN  (IF found THEN PathEntry(_get_address_components(device.name)) ELSE <<>>)
             \o ParentEntries(Tail(entries), slot)

SLASH_PCI == <<"/", "P", "c", "i", "(">>
PCIROOT_PAREN == <<"P", "c", "i", "R", "o", "o", "t", "(">>

RECURSIVE PciSegments(_)
PciSegments(comps) ==
    IF comps = <<>> THEN <<>>
    ELSE SLASH_PCI \o Head(comps) \o <<")">> \o PciSegments(Tail(comps))

\* pci_from_acpi_linux from line 18 on: both files were read and stripped
LinuxResolve(acpi, pci_uevent, root_exists, entries) ==
    IF acpi = <<>> \/ pci_uevent = <<>> THEN [acpi |-> None, pci |-> None]
    ELSE LET slot == FindSlot(Split(pci_uevent, "\n"))
         IN  IF slot = None \/ slot[1] = <<>>
             THEN [acpi |-> Some(acpi), pci |-> Some(<<>>)]
             ELSE IF ~IsHexString(Split(slot[1], ":")[1])
             THEN [acpi |-> Some(acpi), pci |-> Some(<<>>)]
             ELSE LET domain == ParseInt(Split(slot[1], ":")[1], 16)
                      paths == PathEntry(_get_address_components(slot[1]))
                               \o (IF root_exists
                                   THEN ParentEntries(entries, slot[1])
                                   ELSE <<>>)
                  IN  [acpi |-> Some(acpi),
                       pci |-> Some(PCIROOT_PAREN \o Hex(domain) \o <<")">>
                                    \o PciSegments(SortedReverse(paths)))]

\* a pci_from_acpi_linux without the except clause around the two reads
PciFromAcpiLinuxUncaught(acpi_file, uevent_file, root_exists, entries) ==
    IF acpi_file = None \/ uevent_file = None THEN Raised("FileNotFoundError")
    ELSE Returned(LinuxResolve(StripChars(acpi_file[1]), StripChars(uevent_file[1]),
                               root_exists, entries))

\* pci_from_acpi_linux(device_path), on the files and directories it reads:
\* an unreadable file makes open() raise OSError, which is caught
pci_from_acpi_linux(acpi_file, uevent_file, root_exists, entries) ==
    IF acpi_file = None \/ uevent_file = None
    THEN Returned([acpi |-> None, pci |-> None])
    ELSE Returned(LinuxResolve(StripChars(acpi_file[1]), StripChars(uevent_file[1]),
                               root_exists, entries))

(***************************************************************************)
(* Location strings and device directories handed to the resolvers         *)
(***************************************************************************)
\* '#'-separated segments per enumerated location string
MaxSegments == 2

SegRoot0 == <<"P", "C", "I", "R", "O", "O", "T", "(", "0", ")">>
SegRoot10 == <<"P", "C", "I", "R", "O", "O", "T", "(", "1", "0", ")">>
SegPci1D00 == <<"P", "C", "I", "(", "1", "D", "0", "0", ")">>
SegPci0000 == <<"P", "C", "I", "(", "0", "0", "0", "0", ")">>
SegPciLower == <<"P", "C", "I", "(", "1", "d", "0", "2", ")">>
SegUsb == <<"U", "S", "B", "(", "0", "1", "0", "2", ")">>
SegAcpiSB == <<"A", "C", "P", "I", "(", "_", "S", "B", "_", ")">>
SegAcpiPCI0 == <<"A", "C", "P", "I", "(", "P", "C", "I", "0", ")">>
SegAcpiEmpty == <<"A", "C", "P", "I", "(", ")">>
SegAcpiTwo == <<"A", "C", "P", "I", "(", "A", ")", "A", "C", "P", "I", "(", "B", ")">>
SegAcpiSlash == <<"A", "C", "P", "I", "(", "\\", "X", ")">>
SegAcpiOpen == <<"A", "C", "P", "I", "(", "A">>
SegFoo == <<"F", "O", "O">>
SegCanonical == <<"\\", "_", "S", "B", "_", ".", "P", "C", "I", "0">>

\* PCIROOT( followed by one decimal digit more than int() converts
SegRootOverlong ==
    PCIROOT_OPEN \o [i \in 1..(INT_MAX_STR_DIGITS + 1) |-> "1"] \o <<")">>

Segments == {SegRoot0, SegRoot10, SegPci1D00, SegPci0000,
             SegPciLower, SegUsb, SegAcpiSB, SegAcpiPCI0,
             <<"P", "C", "I", "(", "1", "D", ")">>,
             <<"P", "C", "I", "(", "1", "D", "0", "0", "F", "F", ")">>,
             <<"P", "C", "I", "R", "O", "O", "T", "(", "0", ")", "X">>,
             <<"X", "P", "C", "I", "(", "0", "0", "0", "0", ")">>,
             SegAcpiEmpty, SegAcpiTwo, SegAcpiSlash, SegAcpiOpen,
             <<"A", "C", "P", "I", "(", "A", "\n", "B", ")">>,
             \* a group whose content holds an opening "ACPI("
             <<"A", "C", "P", "I", "(", "A", "C", "P", "I", "(", "A", ")">>,
             SegFoo, <<>>, SegCanonical}

\* the location strings of test_format_paths

WindowsInit ==
    /\ platform = "windows"
    /\ pciOut = Pending
    /\ acpiOut = Pending
    /\ \/ rawSegs = <<>> /\ raw = None
       \/ \E n \in 1..MaxSegments : \E segs \in [1..n -> Segments] :
             rawSegs = segs /\ raw = Some(Join(segs, <<"#">>))
       \* the location strings of test_format_paths
       \/ \E segs \in { <<SegRoot0, SegPci1D00, SegPci0000, SegPci0000, SegPci0000>>,
                         <<SegAcpiSB, SegAcpiPCI0,
                           <<"A", "C", "P", "I", "(", "S", "A", "T", "0", ")">>,
                           <<"A", "C", "P", "I", "(", "N", "I", "C", "0", ")">>>> } :
             rawSegs = segs /\ raw = Some(Join(segs, <<"#">>))
       \/ rawSegs = <<SegRootOverlong>> /\ raw = Some(SegRootOverlong)

\* format_pci_path is applied to the location string
FormatPciPath ==
    /\ platform = "windows"
    /\ pciOut = Pending
    /\ pciOut' = format_pci_path(raw)
    /\ UNCHANGED <<platform, rawSegs, raw, acpiOut, linVars, edidVars, displayVars, propVars, gfxVars, hwidVars>>

\* format_acpi_path is applied to the location string
FormatAcpiPath ==
    /\ platform = "windows"
    /\ acpiOut = Pending
    /\ acpiOut' = Returned(format_acpi_path(raw))
    /\ UNCHANGED <<platform, rawSegs, raw, pciOut, linVars, edidVars, displayVars, propVars, gfxVars, hwidVars>>

\* PCI devices (slot names) of the device directories
DevRootPort == <<"0", "0", "0", "0", ":", "0", "0", ":", "1", "c", ".", "0">>
DevGraphics == <<"0", "0", "0", "0", ":", "0", "0", ":", "0", "2", ".", "0">>
DevAudio == <<"0", "0", "0", "0", ":", "0", "0", ":", "1", "f", ".", "3">>

\* a topology: the chain of bridges from the root bus down to the device
\* that is resolved, and the other devices of the registry
Topologies ==
    { [chain |-> <<DevRootPort,
                   <<"0", "0", "0", "0", ":", "0", "2", ":", "0", "0", ".", "0">>>>,
       others |-> <<DevGraphics>>],
      [chain |-> <<<<"0", "0", "0", "0", ":", "0", "0", ":", "0", "3", ".", "0">>,
                   <<"0", "0", "0", "0", ":", "0", "1", ":", "0", "4", ".", "0">>>>,
       others |-> <<DevAudio>>],
      [chain |-> <<<<"0", "0", "0", "1", ":", "0", "0", ":", "1", "c", ".", "4">>,
                   <<"0", "0", "0", "1", ":", "0", "4", ":", "0", "0", ".", "0">>,
                   <<"0", "0", "0", "1", ":", "0", "5", ":", "0", "1", ".", "0">>>>,
       others |-> <<>>],
      [chain |-> <<DevGraphics>>, others |-> <<DevAudio, DevRootPort>>],
      \* a device in PCI domain 0x000a
      [chain |-> <<<<"0", "0", "0", "a", ":", "0", "0", ":", "0", "2", ".", "0">>>>,
       others |-> <<>>] }

\* the directory of chain[i] lists the device below it besides its own files
ListingOf(topology, name) ==
    {<<"u", "e", "v", "e", "n", "t">>} \cup
    {topology.chain[i + 1] : i \in {j \in 1..(Len(topology.chain) - 1) : topology.chain[j] = name}}

\* the texts of <device>/uevent tried for the device named slot
UeventTexts(slot) ==
    { <<"D", "R", "I", "V", "E", "R", "=", "p", "c", "i", "e", "p", "o", "r", "t">> \o <<"\n">> \o <<"P", "C", "I", "_", "S", "L", "O", "T", "_", "N", "A", "M", "E", "=">> \o slot \o <<"\n">>,
      <<"p", "c", "i", "_", "s", "l", "o", "t", "_", "n", "a", "m", "e", "=">> \o slot,
      <<"D", "R", "I", "V", "E", "R", "=", "p", "c", "i", "e", "p", "o", "r", "t">>,
      <<"P", "C", "I", "_", "S", "L", "O", "T", "_", "N", "A", "M", "E", "=">>,
      <<"P", "C", "I", "_", "S", "L", "O", "T", "_", "N", "A", "M", "E", "=">> \o SubSeq(slot, 1, Len(slot) - 2),
      <<"P", "C", "I", "_", "S", "L", "O", "T", "_", "N", "A", "M", "E", "=">> \o <<"z", "z">> \o slot,
      <<"\n">> }

\* the ACPI path the kernel writes for a device, and a text that is none
AcpiCanonicalText == <<"\\", "_", "S", "B", "_", ".", "P", "C", "I", "0", ".", "R", "P", "0", "5", ".", "P", "X", "S", "X">>
AcpiOtherText == <<"g", "a", "r", "b", "a", "g", "e">>


LinuxInit ==
    /\ platform = "linux"
    /\ linOut = Pending
    /\ pciRootExists \in BOOLEAN
    /\ \E topology \in Topologies :
          LET devices == topology.chain \o topology.others
              n == Len(devices)
              slot == topology.chain[Len(topology.chain)]
          IN  /\ chain = topology.chain
              /\ \E order \in {f \in [1..n -> 1..n] : \A a, b \in 1..n : f[a] = f[b] => a = b},
                    unreadable \in 0..n :
                    registry = [i \in 1..n |->
                                  [name |-> devices[order[i]],
                                   listing |-> IF order[i] = unreadable THEN None
                                               ELSE Some(ListingOf(topology, devices[order[i]]))]]
              /\ acpiFile \in {None} \cup
                     {Some(t) : t \in {AcpiCanonicalText \o <<"\n">>, AcpiOtherText,
                                       <<" ", "\n">>, <<>>}}
              /\ ueventFile \in {None} \cup {Some(t) : t \in UeventTexts(slot)}

\* pci_from_acpi_linux is applied to the device directory
PciFromAcpiLinux ==
    /\ platform = "linux"
    /\ linOut = Pending
    /\ linOut' = pci_from_acpi_linux(acpiFile, ueventFile, pciRootExists, registry)
    /\ UNCHANGED <<platform, rawSegs, raw, pciOut, acpiOut,
                   acpiFile, ueventFile, pciRootExists, registry, chain,
                   edidVars, displayVars, propVars, gfxVars, hwidVars>>

PathInit ==
    /\ EdidIdle
    /\ DisplayIdle
    /\ OtherIdle("path")
    /\ \/ WindowsInit
          /\ acpiFile = None /\ ueventFile = None /\ pciRootExists = FALSE
          /\ registry = <<>> /\ chain = <<>> /\ linOut = Pending
       \/ LinuxInit
          /\ rawSegs = <<>> /\ raw = None /\ pciOut = Pending /\ acpiOut = Pending

PathNext == FormatPciPath \/ FormatAcpiPath \/ PciFromAcpiLinux

SpecPath == PathInit /\ [][PathNext]_vars

(***************************************************************************)
(* Properties of the path resolvers                                        *)
(***************************************************************************)
PciDone == pciOut.kind = "returned"
AcpiDone == acpiOut.kind = "returned"
LinDone == linOut.kind = "returned"
RawEmpty == raw = None \/ raw[1] = <<>>

\* the output the claim gives a segment: PCIROOT(<decimal n>) and
\* PCI(<4 hex digits h>) are the recognized segments, any other is skipped
ClaimedPciPart(seg) ==
    IF /\ StartsWith(seg, PCIROOT_OPEN)
       /\ Len(seg) >= Len(PCIROOT_OPEN) + 2
       /\ seg[Len(seg)] = ")"
       /\ \A i \in (Len(PCIROOT_OPEN) + 1)..(Len(seg) - 1) : seg[i] \in DecSet
    THEN <<PCIROOT_OUT
            \o FormatHex(ParseInt(SubSeq(seg, Len(PCIROOT_OPEN) + 1, Len(seg) - 1), 10), HexUpper)
            \o <<")">> >>
    ELSE IF /\ StartsWith(seg, PCI_OPEN)
            /\ Len(seg) = Len(PCI_OPEN) + 5
            /\ seg[Len(seg)] = ")"
            /\ \A i \in (Len(PCI_OPEN) + 1)..(Len(seg) - 1) : seg[i] \in HexSet
    THEN LET h == ParseInt(SubSeq(seg, Len(PCI_OPEN) + 1, Len(seg) - 1), 16)
         IN  << PCI_OUT \o FormatHex(h \div 256, HexUpper) \o COMMA_0X
                        \o FormatHex(h % 256, HexUpper) \o <<")">> >>
    ELSE <<>>

RECURSIVE ClaimedPciParts(_)
ClaimedPciParts(segments) ==
    IF segments = <<>> THEN <<>>
    ELSE ClaimedPciPart(Head(segments)) \o ClaimedPciParts(Tail(segments))

\* C4: format_pci_path returns None for an empty raw string; otherwise the
\* '/'-joined outputs, in input order, of the segments PCIROOT(<decimal n>)
\* and PCI(<4 hex digits>), every other segment being skipped.
C4_FormatPciPath ==
    PciDone =>
        pciOut.value = IF RawEmpty THEN None
                       ELSE Some(Join(ClaimedPciParts(rawSegs), <<"/">>))

\* "ACPI(" stands at i and a ")" follows it on the same line
HasAcpiGroup(r) ==
    \E i \in 1..Len(r) :
        /\ AcpiOpenAt(r, i)
        /\ \E j \in (i + 5)..Len(r) :
              r[j] = ")" /\ \A k \in (i + 5)..(j - 1) : r[k] # "\n"

\* the names of the ACPI(name) groups of a segment of the location strings
AcpiNames(seg) ==
    CASE seg = SegAcpiSB -> << <<"_", "S", "B", "_">> >>
      [] seg = SegAcpiPCI0 -> << <<"P", "C", "I", "0">> >>
      [] seg = <<"A", "C", "P", "I", "(", "S", "A", "T", "0", ")">> -> << <<"S", "A", "T", "0">> >>
      [] seg = <<"A", "C", "P", "I", "(", "N", "I", "C", "0", ")">> -> << <<"N", "I", "C", "0">> >>
      [] seg = SegAcpiEmpty -> << <<>> >>
      [] seg = SegAcpiTwo -> << <<"A">>, <<"B">> >>
      [] seg = SegAcpiSlash -> << <<"\\", "X">> >>
      [] seg = <<"A", "C", "P", "I", "(", "A", "C", "P", "I", "(", "A", ")">>
            -> << <<"A", "C", "P", "I", "(", "A">> >>
      [] OTHER -> <<>>

RECURSIVE AllAcpiNames(_)
AllAcpiNames(segments) ==
    IF segments = <<>> THEN <<>>
    ELSE AcpiNames(Head(segments)) \o AllAcpiNames(Tail(segments))

\* no segment of the string leaves a group open across the '#'
Balanced(segments) == \A i \in 1..Len(segments) : segments[i] # SegAcpiOpen

\* C5: format_acpi_path returns None for an empty or absent raw string; a raw
\* string with ACPI(name) groups gives one backslash followed by the names in
\* order joined by '.'; a raw string without groups is returned unchanged.
C5_FormatAcpiPath ==
    AcpiDone =>
        /\ RawEmpty => acpiOut.value = None
        /\ ~RawEmpty =>
              /\ acpiOut.value # None
              /\ ~HasAcpiGroup(raw[1]) => acpiOut.value = raw
              /\ HasAcpiGroup(raw[1]) =>
                    /\ acpiOut.value[1][1] = "\\"
                    /\ Balanced(rawSegs) =>
                          acpiOut.value[1] = <<"\\">> \o Join(AllAcpiNames(rawSegs), <<".">>)

C5_Witness ==
    /\ AcpiDone
    /\ rawSegs = <<SegAcpiSB, SegAcpiPCI0>>
    /\ acpiOut.value = Some(<<"\\", "_", "S", "B", "_", ".", "P", "C", "I", "0">>)

\* PciRoot(0x<hex>) ( /Pci(0x<hex>,0x<hex>) )*
RECURSIVE IsPciTail(_)
IsPciTail(t) ==
    \/ t = <<>>
    \/ /\ StartsWith(t, <<"/", "P", "c", "i", "(", "0", "x">>)
       /\ LET a == SubSeq(t, 8, Len(t))
              n == RunIn(a, HexSet)
              b == SubSeq(a, n + 1, Len(a))
              m == RunIn(SubSeq(b, 4, Len(b)), HexSet)
          IN  /\ n >= 1
              /\ StartsWith(b, COMMA_0X)
              /\ m >= 1
              /\ Len(b) >= m + 4
              /\ b[m + 4] = ")"
              /\ IsPciTail(SubSeq(b, m + 5, Len(b)))

IsPciPath(p) ==
    /\ StartsWith(p, PCIROOT_OUT)
    /\ LET a == SubSeq(p, Len(PCIROOT_OUT) + 1, Len(p))
           n == RunIn(a, HexSet)
       IN  /\ n >= 1
           /\ Len(a) >= n + 1
           /\ a[n + 1] = ")"
           /\ IsPciTail(SubSeq(a, n + 2, Len(a)))

\* a returned string that the callers take as a path: neither None nor ""
Present(v) == v # None /\ v # Some(<<>>)

\* C6: a pci path a resolver returns (format_pci_path, pci_from_acpi_linux)
\* is one PciRoot(0x<hex>) segment followed by zero or more /Pci(0x<hex>,0x<hex>).
C6_PciGrammar ==
    /\ (PciDone /\ Present(pciOut.value)) => IsPciPath(pciOut.value[1])
    /\ (LinDone /\ Present(linOut.value.pci)) => IsPciPath(linOut.value.pci[1])

\* the device whose directory is resolved
Target == chain[Len(chain)]

\* chain[i] puts a segment into the path: it is the device itself, or its
\* directory is listed, readable and holds the device's slot name
Contributes(i) ==
    \/ i = Len(chain)
    \/ /\ pciRootExists
       /\ \E k \in 1..Len(registry) :
             /\ registry[k].name = chain[i]
             /\ registry[k].listing # None
             /\ Target \in registry[k].listing[1]

RECURSIVE RootToLeaf(_)
RootToLeaf(i) ==
    IF i > Len(chain) THEN <<>>
    ELSE (IF Contributes(i)
          THEN SLASH_PCI \o Join(_get_address_components(chain[i])[1], <<",">>) \o <<")">>
          ELSE <<>>)
         \o RootToLeaf(i + 1)

\* the uevent file names the device's own slot
SlotIsTarget ==
    /\ ueventFile # None
    /\ FindSlot(Split(StripChars(ueventFile[1]), "\n")) = Some(Target)

\* C7: the Pci segments of the path pci_from_acpi_linux returns are ordered
\* root to leaf: every bridge above the device precedes what lies beneath it
\* and the device's own segment is last.
C7_RootToLeaf ==
    (LinDone /\ Present(linOut.value.pci) /\ SlotIsTarget) =>
        linOut.value.pci[1] =
            PCIROOT_PAREN \o Hex(ParseInt(Split(Target, ":")[1], 16)) \o <<")">> \o RootToLeaf(1)

\* a backslash, then names separated by dots
IsAcpiPath(p) ==
    /\ Len(p) >= 2
    /\ p[1] = "\\"
    /\ LET names == Split(SubSeq(p, 2, Len(p)), ".")
       IN  \A i \in 1..Len(names) :
              names[i] # <<>> /\ \A k \in 1..Len(names[i]) : names[i][k] # "\\"

RECURSIVE PlainNames(_)
PlainNames(names) ==
    \/ names = <<>>
    \/ /\ Head(names) # <<>>
       /\ \A k \in 1..Len(Head(names)) : Head(names)[k] # "\\"
       /\ PlainNames(Tail(names))

USB_OPEN == <<"U", "S", "B", "(">>
USB_OUT == <<"U", "s", "b", "(", "0", "x">>

\* the output the claim gives a segment USB(<4 hex digits h>)
ClaimedUsbPart(seg) ==
    IF /\ StartsWith(seg, USB_OPEN)
       /\ Len(seg) = Len(USB_OPEN) + 5
       /\ seg[Len(seg)] = ")"
       /\ \A i \in (Len(USB_OPEN) + 1)..(Len(seg) - 1) : seg[i] \in HexSet
    THEN LET h == ParseInt(SubSeq(seg, Len(USB_OPEN) + 1, Len(seg) - 1), 16)
         IN  << USB_OUT \o FormatHex(h \div 256, HexUpper) \o COMMA_0X
                        \o FormatHex(h % 256, HexUpper) \o <<")">> >>
    ELSE <<>>

RECURSIVE ClaimedPartsWithUsb(_)
ClaimedPartsWithUsb(segments) ==
    IF segments = <<>> THEN <<>>
    ELSE ClaimedPciPart(Head(segments)) \o ClaimedUsbPart(Head(segments))
         \o ClaimedPartsWithUsb(Tail(segments))

\* the segments of the location strings that follow the grammar
GrammarSegments == {SegRoot0, SegRoot10, SegPci1D00, SegPci0000, SegPciLower, SegUsb}

\* C16: a segment USB(<4 hex digits h>) of the raw location string is emitted
\* by format_pci_path, at its input position among the PciRoot and Pci
\* segments, as Usb(0x{h>>8:X},0x{h&0xFF:X}).
C16_UsbSegment ==
    (/\ PciDone
     /\ \A i \in 1..Len(rawSegs) : rawSegs[i] \in GrammarSegments
     /\ \E i \in 1..Len(rawSegs) : rawSegs[i] = SegUsb) =>
        pciOut.value = Some(Join(ClaimedPartsWithUsb(rawSegs), <<"/">>))

\* the slot name pci_from_acpi_linux finds in the uevent file, or None
SlotOfUevent ==
    IF ueventFile = None THEN None
    ELSE FindSlot(Split(StripChars(ueventFile[1]), "\n"))

\* C17: the pci path pci_from_acpi_linux builds starts with the segment
\* PciRoot(0x{domain:X}): domain is the leading colon-delimited field of
\* PCI_SLOT_NAME read as hexadecimal, written in upper-case hexadecimal
\* without leading zeros, as format_pci_path writes it.
C17_PciRootDomain ==
    (LinDone /\ Present(linOut.value.pci)) =>
        LET domain == ParseInt(Split(SlotOfUevent[1], ":")[1], 16)
            first == Split(linOut.value.pci[1], "/")[1]
        IN  first = PCIROOT_OUT \o FormatHex(domain, HexUpper) \o <<")">>

\* firmware_node/path or uevent cannot be read, or reads as empty
FilesUnusable ==
    IF acpiFile = None \/ ueventFile = None THEN TRUE
    ELSE StripChars(acpiFile[1]) = <<>> \/ StripChars(ueventFile[1]) = <<>>

\* C18: pci_from_acpi_linux, given a device directory in which
\* firmware_node/path or uevent cannot be read or reads as empty, returns
\* both the acpi and the pci path absent and raises no exception.
C18_UnreadableFiles ==
    (platform = "linux" /\ linOut # Pending /\ FilesUnusable) =>
        linOut = Returned([acpi |-> None, pci |-> None])

C18_Witness ==
    /\ platform = "linux"
    /\ acpiFile = None
    /\ ueventFile # None /\ SlotOfUevent = Some(Target)
    /\ linOut = Returned([acpi |-> None, pci |-> None])

\* C19: whatever string they are given, the resolvers (format_pci_path,
\* format_acpi_path, pci_from_acpi_linux with _get_address_components) return
\* a path, possibly partial or empty, and never raise.
C19_NeverRaises ==
    /\ pciOut # Pending => pciOut.kind = "returned"
    /\ acpiOut # Pending => acpiOut.kind = "returned"
    /\ linOut # Pending => linOut.kind = "returned"

(***************************************************************************)
(* Monitor enumeration (dumps/windows/display.py).  The callback's GPU,    *)
(* EDID and display-mode queries fill attributes of the module only; a     *)
(* module is recorded with the two identifiers that decide whether it is   *)
(* collected.                                                              *)
(***************************************************************************)
MaxMonitors == 3


\* szDevice of MONITORINFOEXA and DeviceID of DISPLAY_DEVICEA, decoded
Monitors ==
    [szDevice : {"", "\\\\.\\DISPLAY1"},
     DeviceID : {"", "MONITOR\\TST1234\\{4d36e96e-e325-11ce-bfc1-08002be10318}\\0001"}]

\* _add_partial_status: the status is replaced by a new PARTIAL one that
\* holds the message
_add_partial_status(info, message) ==
    [info EXCEPT !.status = [Status("PARTIAL") EXCEPT !.messages = Append(@, message)]]

\* _fetch_connector_info: (connector_info, error)
_fetch_connector_info(code) ==
    IF code # "STATUS_OK"
    THEN [connector_info |-> None, error |-> Some(<<"PARTIAL",
              "Failed to fetch Display connector information, error code: " \o code>>)]
    ELSE [connector_info |-> Some("parse_connector_info"), error |-> None]

\* _build_monitor_info: the identification of the module
_build_monitor_info(device_id, hardware_id) ==
    [device_id |-> device_id, acpi_path |-> hardware_id]

\* _monitor_enum_callback: display_info after the callback ran for one monitor
_monitor_enum_callback(info, monitor) ==
    LET device_id == monitor.szDevice
        pnp_device_id == monitor.DeviceID
    IN  IF device_id = ""
        THEN _add_partial_status(info,
                 "Failed to fetch Display device information, DeviceID is empty!")
        ELSE IF pnp_device_id = ""
        THEN _add_partial_status(info,
                 "Failed to fetch Display device information, PNPDeviceID is empty!")
        ELSE [info EXCEPT !.modules = Append(@, _build_monitor_info(device_id, pnp_device_id))]

\* fetch_display_info_internal, the fold of the connector information
WithConnectorInfo(info, fetched) ==
    IF fetched.error # None
    THEN [info EXCEPT !.status.type = fetched.error[1][1],
                      !.status.messages = Append(@, fetched.error[1][2])]
    ELSE [info EXCEPT !._connectorInfo = fetched.connector_info]

\* a final step that marks every run with a failure message as failed
MarkFailedIfAnyFailure(info) ==
    IF Len(info.modules) = 0 \/ info.status.type # "SUCCESS"
    THEN [info EXCEPT !.status.type = "FAILED"]
    ELSE info

\* fetch_display_info_internal, "mark as failed if no monitors were found"
MarkFailedIfEmpty(info) ==
    IF Len(info.modules) = 0
    THEN [info EXCEPT !.status.type = "FAILED"]
    ELSE info

DisplayInit ==
    /\ platform = "display"
    /\ EdidIdle
    /\ PathIdle
    /\ OtherIdle("display")
    /\ result_code \in {"STATUS_OK", "STATUS_FAILURE"}
    /\ enumerates \in BOOLEAN
    /\ \E n \in 0..MaxMonitors : monitors \in [1..n -> Monitors]
    /\ display_info = DisplayInfo
    /\ enumerated = 0
    /\ fetchPc = "start"

\* fetch_display_info_internal up to the call of EnumDisplayMonitors
FetchConnectorInfo ==
    /\ platform = "display"
    /\ fetchPc = "start"
    /\ display_info' = WithConnectorInfo(display_info, _fetch_connector_info(result_code))
    /\ fetchPc' = "enumerate"
    /\ UNCHANGED <<result_code, enumerates, monitors, enumerated, edidVars, pathVars, propVars, gfxVars, hwidVars>>

\* EnumDisplayMonitors invokes the callback for the next monitor
MonitorEnumCallback ==
    /\ platform = "display"
    /\ fetchPc = "enumerate"
    /\ enumerates
    /\ enumerated < Len(monitors)
    /\ display_info' = _monitor_enum_callback(display_info, monitors[enumerated + 1])
    /\ enumerated' = enumerated + 1
    /\ UNCHANGED <<result_code, enumerates, monitors, fetchPc, edidVars, pathVars, propVars, gfxVars, hwidVars>>

\* EnumDisplayMonitors is back; fetch_display_info_internal returns display_info
ReturnDisplayInfo ==
    /\ platform = "display"
    /\ fetchPc = "enumerate"
    /\ enumerates => enumerated = Len(monitors)
    /\ display_info' = MarkFailedIfEmpty(display_info)
    /\ fetchPc' = "done"
    /\ UNCHANGED <<result_code, enumerates, monitors, enumerated, edidVars, pathVars, propVars, gfxVars, hwidVars>>

DisplayNext == FetchConnectorInfo \/ MonitorEnumCallback \/ ReturnDisplayInfo

SpecDisplay == DisplayInit /\ [][DisplayNext]_vars

(***************************************************************************)
(* Properties of the monitor enumeration                                   *)
(***************************************************************************)
\* fetch_display_info_internal has returned
FetchDone == platform = "display" /\ fetchPc = "done"

\* C20: the status that fetch_display_info_internal returns is FAILED exactly
\* when no module was collected, and with at least one module it is SUCCESS
\* or PARTIAL.
C20_FailedIffNoModule ==
    FetchDone =>
        /\ display_info.status.type = "FAILED" <=> Len(display_info.modules) = 0
        /\ Len(display_info.modules) >= 1 =>
              display_info.status.type \in {"SUCCESS", "PARTIAL"}

\* C20: a run that returned a module although a monitor before it had no
\* PNP device ID and the connector information could not be fetched
C20_Witness ==
    /\ FetchDone
    /\ Len(display_info.modules) >= 1
    /\ result_code # "STATUS_OK"
    /\ \E i \in 1..Len(monitors) : monitors[i].DeviceID = ""
    /\ display_info.status.type = "PARTIAL"

\* the message is in the list of status messages
HasMessage(messages, message) == \E i \in 1..Len(messages) : messages[i] = message

\* C25: during a run of fetch_display_info_internal no step and no callback
\* removes a message from display_info.status.messages, so every message that
\* was recorded is in the list when the function returns.
C25_MessagesAccumulate ==
    [][platform = "display" =>
          \A i \in 1..Len(display_info.status.messages) :
              HasMessage(display_info.status.messages', display_info.status.messages[i])]_vars

(***************************************************************************)
(* Properties of the resolution that parse_edid (common) reports           *)
(***************************************************************************)
\* the (width, height, refresh_rate) that parse_edid (common) ends with:
\* the reported one, or the initial (0, 0, 0) when nothing is reported
FinalResolution(out) ==
    IF out.width = None THEN <<0, 0, 0>>
    ELSE <<out.width[1], out.height[1], out.refresh_rate[1]>>

\* C22: when the most significant bit of byte 0x14 is 0 the timing
\* descriptors are skipped and parse_edid (common) reports no width, height
\* or refresh rate; when it is 1 every timing descriptor is considered, so
\* none has a larger key than the resolution the call ends with.
C22_SkippedWithoutInputType ==
    comOut.kind = "module" =>
        IF At(edid, 20) \div 128 = 0
        THEN comOut.width = None /\ comOut.height = None /\ comOut.refresh_rate = None
        ELSE \A k \in {j \in 0..3 : IsTimingSlot(edid, j)} :
                ~KeyLess(FinalResolution(comOut), TimingOf(SlotBlock(edid, k)))

\* C26: a width and a height that parse_edid (common) reports are both
\* greater than zero.
C26_PositiveResolution ==
    (comOut.kind = "module" /\ comOut.width # None) =>
        comOut.width[1] > 0 /\ comOut.height[1] > 0

\* the orders in which four blocks can occupy the four slots
SlotOrders == {f \in [1..4 -> 0..3] : \A a, b \in 1..4 : f[a] = f[b] => a = b}

\* the block with its four descriptor slots rearranged: slot i - 1 holds what
\* slot order[i] held
PermuteSlots(e, order) ==
    Slice(e, 0, 54) \o SlotBlock(e, order[1]) \o SlotBlock(e, order[2])
        \o SlotBlock(e, order[3]) \o SlotBlock(e, order[4]) \o Slice(e, 126, Len(e))

\* parse_edid (common) has run before the other decoders, which neither read
\* nor change its outcome: every block is compared with its rearrangements
\* once
ComFirst == comOut # Pending /\ winOut = Pending /\ lnxOut = Pending

\* the key of max(): (width * height, refresh_rate)
KeyOf(r) == <<r[1] * r[2], r[3]>>

\* C27: permuting the descriptor blocks among the four slots leaves the
\* (width, height, refresh_rate) that parse_edid (common) chooses unchanged.
C27_OrderIndependent ==
    (ComFirst /\ comOut.kind = "module" /\ Len(edid) >= 126) =>
        \A order \in SlotOrders :
            LET other == ComParseEdid(PermuteSlots(edid, order))
            IN  other.kind = "module" /\ FinalResolution(other) = FinalResolution(comOut)

\* C27 (amended): permuting the descriptor blocks among the four slots leaves
\* the area and the refresh rate of the chosen resolution unchanged; the
\* width and height are those of the first slot whose timing descriptor has
\* that area and rate.
C27_OrderIndependentKey ==
    (ComFirst /\ comOut.kind = "module" /\ Len(edid) >= 126) =>
        /\ \A order \in SlotOrders :
              LET other == ComParseEdid(PermuteSlots(edid, order))
              IN  /\ other.kind = "module"
                  /\ KeyOf(FinalResolution(other)) = KeyOf(FinalResolution(comOut))
        /\ comOut.width # None =>
              \E k \in {j \in 0..3 : IsTimingSlot(edid, j)} :
                  /\ TimingOf(SlotBlock(edid, k)) = FinalResolution(comOut)
                  /\ \A j \in 0..(k - 1) :
                        IsTimingSlot(edid, j) =>
                            KeyOf(TimingOf(SlotBlock(edid, j))) # KeyOf(FinalResolution(comOut))

\* C27: 1080x1920@60 in a slot before 1920x1080@60: the first one is chosen,
\* and the other order chooses the other one
C27_Witness ==
    /\ comOut.kind = "module"
    /\ SlotBlock(edid, 0) = TPortrait60
    /\ SlotBlock(edid, 1) = T1080p60
    /\ FinalResolution(comOut) = <<1080, 1920, 6000>>
    /\ FinalResolution(ComParseEdid(PermuteSlots(edid, <<1, 0, 2, 3>>))) = <<1920, 1080, 6000>>

(***************************************************************************)
(* Further properties of the path resolvers                                *)
(***************************************************************************)
\* the orders in which os.listdir can return the entries of the registry
RegistryOrders ==
    {f \in [1..Len(registry) -> 1..Len(registry)] : \A a, b \in DOMAIN f : f[a] = f[b] => a = b}

\* C28: pci_from_acpi_linux returns the same (acpi, pci) for every order in
\* which the entries of /sys/bus/pci/devices are enumerated.
C28_EnumerationOrder ==
    (platform = "linux" /\ linOut # Pending) =>
        \A order \in RegistryOrders :
            pci_from_acpi_linux(acpiFile, ueventFile, pciRootExists,
                                [i \in 1..Len(registry) |-> registry[order[i]]]) = linOut

\* C28: a path with the segment of a parent bridge whose directory is not the
\* first one the registry enumerates
C28_Witness ==
    /\ platform = "linux" /\ linOut # Pending
    /\ Present(linOut.value.pci)
    /\ SlotIsTarget
    /\ Len(chain) >= 2
    /\ Contributes(Len(chain) - 1)
    /\ Len(registry) >= 3
    /\ registry[1].name # chain[Len(chain) - 1]

\* C29: format_acpi_path applied to its own result returns that result:
\* format_acpi_path(format_acpi_path(r)) = format_acpi_path(r).
C29_Idempotent ==
    (platform = "windows" /\ acpiOut # Pending) =>
        format_acpi_path(acpiOut.value) = acpiOut.value

\* C29: a raw string with two ACPI groups is rewritten into the canonical
\* path, and the canonical path passes through unchanged
C29_Witness ==
    /\ platform = "windows" /\ acpiOut # Pending
    /\ rawSegs = <<SegAcpiSB, SegAcpiPCI0>>
    /\ acpiOut.value # raw
    /\ acpiOut.value = Some(SegCanonical)
    /\ format_acpi_path(Some(SegCanonical)) = Some(SegCanonical)

\* ---------------------------------------------------------------------------
\* util/location_paths.py: get_location_paths -> _fetch_property ->
\* CM_Get_DevNode_PropertyW.  The defaults propType=c_ulong() and
\* propBuffSize=c_ulong() are evaluated once, when the function is defined:
\* every call that _fetch_property makes passes neither, so all calls hand
\* the same two objects to the OS.  The recursive call passes them on.
\* ---------------------------------------------------------------------------

\* the callers that are inside get_location_paths at the same time
Callers == {1, 2}

\* the size in bytes of the location paths of each caller's device
RequiredSize == <<120, 64>>

\* the frames of CM_Get_DevNode_PropertyW a caller may stack up before the
\* interpreter raises RecursionError (sys.getrecursionlimit(), scaled down)
RecursionLimit == 4

\* the statuses of cfgmgr.CM_Get_DevNode_PropertyW: CR_SUCCESS,
\* CR_OUT_OF_MEMORY (0x02), CR_BUFFER_SMALL (0x1A), CR_NO_SUCH_VALUE (0x25)
StatusCodes == {0, 2, 26, 37}

\* _fetch_property calls CM_Get_DevNode_PropertyW(dnDevInst, dpKey): no buffer
NewCall ==
    [pc |-> "query", propBuff |-> None, queries |-> 0,
     wrote |-> None, used |-> None, out |-> Pending]

\* the OS stores the property's type and size through byref(propType) and
\* byref(propBuffSize) when it succeeds or finds the buffer too small
OsWrites(status) == status \in {0, 26}

\* what CM_Get_DevNode_PropertyW does with the status, lines 95-110
AfterQuery(call, status, type, size) ==
    LET c == [call EXCEPT !.queries = @ + 1] IN
    IF status = 2
    THEN [c EXCEPT !.pc = "done", !.out = Returned(None)]
    ELSE IF status = 26 \/ call.propBuff = None
    THEN IF c.queries < RecursionLimit
         THEN [c EXCEPT !.pc = "allocate"]
         ELSE [c EXCEPT !.pc = "done", !.out = Raised("RecursionError")]
    ELSE [c EXCEPT !.pc = "done",
                   !.out = Returned([propType |-> type,
                                     propBuff |-> call.propBuff[1],
                                     propBuffSize |-> size])]

PropertyInit ==
    /\ platform = "property"
    /\ EdidIdle /\ PathIdle /\ DisplayIdle /\ OtherIdle("property")
    /\ propType = 0
    /\ propBuffSize = 0
    /\ calls = [t \in Callers |-> NewCall]

\* caller t: cfgmgr.CM_Get_DevNode_PropertyW returns
Query(t) ==
    /\ platform = "property"
    /\ calls[t].pc = "query"
    /\ \E status \in StatusCodes :
         LET type == IF OsWrites(status) THEN 8210 ELSE propType
             size == IF OsWrites(status) THEN RequiredSize[t] ELSE propBuffSize
         IN /\ propType' = type
            /\ propBuffSize' = size
            /\ calls' = [calls EXCEPT ![t] =
                   AfterQuery([@ EXCEPT !.wrote = IF OsWrites(status)
                                                  THEN Some(RequiredSize[t])
                                                  ELSE None],
                              status, type, size)]
    /\ UNCHANGED <<edidVars, pathVars, displayVars, gfxVars, hwidVars>>

\* caller t: the arguments of the recursive call are evaluated,
\* c_buffer(b"", sizeof(c_ulong) * propBuffSize.value)
Allocate(t) ==
    /\ platform = "property"
    /\ calls[t].pc = "allocate"
    /\ calls' = [calls EXCEPT ![t] =
           [@ EXCEPT !.pc = "query",
                     !.propBuff = Some(4 * propBuffSize),
                     !.used = Some(propBuffSize)]]
    /\ UNCHANGED <<propType, propBuffSize, edidVars, pathVars, displayVars, gfxVars, hwidVars>>

PropertyNext == \E t \in Callers : Query(t) \/ Allocate(t)

SpecProperty == PropertyInit /\ [][PropertyNext]_vars

\* C23: calls of the location-path fetch share no mutable state: the buffer
\* size a call allocates with is the size that its own OS query stored,
\* never one stored by the query of another call.
C23_NoSharedState ==
    platform = "property" =>
        \A t \in Callers :
            (calls[t].pc = "query" /\ calls[t].used # None /\ calls[t].wrote # None)
                => calls[t].used = calls[t].wrote

\* C24: after the size query CM_Get_DevNode_PropertyW retries once and then
\* returns: no call asks the OS more than twice, whatever statuses it gets.
C24_RetriesOnce ==
    platform = "property" =>
        \A t \in Callers :
            /\ calls[t].queries <= 2
            /\ calls[t].queries = 2 => calls[t].pc = "done"

\* ---------------------------------------------------------------------------
\* dumps/linux/graphics.py: fetch_graphics_info.  A device of the listing is
\* a record of what its files hold and of how the helpers outside this file
\* end for it:
\*   class   None (open fails) or Some(text of <device>/class)
\*   vendor  None (open fails) or Some(text of <device>/vendor)
\*   width   None (device or current_link_width cannot be read) or Some(text)
\*   acpi    whether firmware_node/path can be read
\*   pci     whether pci_path_linux returns (TRUE) or raises (FALSE)
\*   speed   None (current_link_speed missing or unreadable) or Some(text)
\*   nvidia  whether fetch_gpu_details_nvidia returns (TRUE) or raises (FALSE)
\*   lspci   whether subprocess.run(["lspci", ...]) returns (TRUE) or raises
\* ---------------------------------------------------------------------------

\* how many entries os.listdir(PCI_ROOT_PATH) returns at most
MaxDevices == 2

\* a device that is no display controller, or whose class file is unusable:
\* nothing but the class file is looked at
OtherDevice(class) ==
    [class |-> class, vendor |-> None, width |-> None, acpi |-> FALSE, pci |-> FALSE,
     speed |-> None, nvidia |-> FALSE, lspci |-> FALSE]

DeviceKinds ==
    {OtherDevice(c) : c \in {None, Some(<<>>), Some(<<"0", "x", "0", "2", "0", "0", "0", "0">>)}}
    \cup
    {d \in [class : {Some(<<"0", "x", "0", "3", "0", "0", "0", "0">>)},
            vendor : {None, Some("0x1002"), Some("0x10de"), Some("0x8086")},
            width : {None, Some(<<"1", "6">>)},
            acpi : BOOLEAN, pci : BOOLEAN,
            speed : {None, Some(<<"8", ".", "0", " ", "G", "T", "/", "s", " ", "P", "C", "I", "e">>),
                     Some(<<"U", "n", "k", "n", "o", "w", "n">>)},
            nvidia : BOOLEAN, lspci : BOOLEAN] :
        \* what is never looked at has one value
        /\ d.vendor = None => d.width = None
        /\ d.vendor # Some("0x10de") => d.nvidia = TRUE}
    \cup
    \* a 3D controller (class 0x0380) whose sub-queries all succeed
    {[class |-> Some(<<"0", "x", "0", "3", "8", "0", "0", "0">>), vendor |-> Some("0x10de"),
      width |-> Some(<<"1", "6">>), acpi |-> TRUE, pci |-> TRUE,
      speed |-> Some(<<"8", ".", "0", " ", "G", "T", "/", "s", " ", "P", "C", "I", "e">>),
      nvidia |-> TRUE, lspci |-> TRUE]}

\* _check_gpu_class: int(device_class, base=16) >> 16 == 3; int() accepts the
\* prefix "0x" and raises ValueError for anything but hexadecimal digits
_check_gpu_class(device) ==
    IF device.class = None THEN Raised("OSError")
    ELSE LET device_class == device.class[1]
             digits == IF StartsWith(device_class, <<"0", "x">>)
                       THEN SubSeq(device_class, 3, Len(device_class))
                       ELSE device_class
         IN IF digits = <<>> \/ \E i \in 1..Len(digits) : digits[i] \notin HexSet
            THEN Raised("ValueError")
            ELSE Returned(ParseInt(digits, 16) \div 65536 = 3)

\* _pcie_gen: the generation of the first key of speed_to_gen that occurs in
\* the text of current_link_speed, or None
_pcie_gen(device) ==
    LET speed_to_gen ==
            << <<(<<"2", ".", "5", " ", "G", "T", "/", "s">>), 1>>,
               <<(<<"5", ".", "0", " ", "G", "T", "/", "s">>), 2>>,
               <<(<<"8", ".", "0", " ", "G", "T", "/", "s">>), 3>>,
               <<(<<"1", "6", ".", "0", " ", "G", "T", "/", "s">>), 4>>,
               <<(<<"3", "2", ".", "0", " ", "G", "T", "/", "s">>), 5>>,
               <<(<<"6", "4", ".", "0", " ", "G", "T", "/", "s">>), 6>> >>
        Occurs(k, s) == \E i \in 1..Len(s) : StartsWith(SubSeq(s, i, Len(s)), k)
    IN IF device.speed = None THEN None
       ELSE LET raw_speed == device.speed[1]
                hits == {n \in 1..Len(speed_to_gen) : Occurs(speed_to_gen[n][1], raw_speed)}
            IN IF hits = {} THEN None
               ELSE Some(speed_to_gen[CHOOSE n \in hits : \A m \in hits : n <= m][2])

\* a variant that appends the message and leaves the status type alone
PartialStatusMessageOnly(info, message) ==
    [info EXCEPT !.status.messages = Append(@, message)]

\* graphics_info.status.type = StatusType.PARTIAL; status.messages.append(...)
PartialStatus(info, message) ==
    [info EXCEPT !.status.type = "PARTIAL", !.status.messages = Append(@, message)]

\* the loop body of fetch_graphics_info from `gpu = GPUInfo()` on
AppendGpu(info, device) ==
    LET props_ok == device.vendor # None /\ device.width # None
        width == IF props_ok THEN device.width[1] ELSE <<>>
        numeric == width # <<>> /\ \A i \in 1..Len(width) : width[i] \in DecSet
        gen == _pcie_gen(device)
        is_nvidia == device.vendor # None /\ device.vendor[1] = "0x10de"
        gpu == [vendor_id |-> device.vendor,
                device_id |-> IF device.vendor # None THEN Some("0x1234") ELSE None,
                pcie_width |-> IF numeric /\ ParseInt(width, 10) > 0
                               THEN Some(ParseInt(width, 10)) ELSE None,
                acpi_path |-> IF device.acpi THEN Some("\\_SB.PCI0.GFX0") ELSE None,
                pci_path |-> IF device.pci THEN Some("PciRoot(0x0)/Pci(0x2,0x0)") ELSE None,
                pcie_gen |-> gen]
        i1 == IF props_ok THEN info
              ELSE PartialStatus(info, "Could not get GPU properties")
        i2 == IF device.acpi THEN i1 ELSE PartialStatus(i1, "Could not get ACPI path")
        i3 == IF device.pci THEN i2 ELSE PartialStatus(i2, "Could not get PCI path")
        i4 == IF gen # None THEN i3 ELSE PartialStatus(i3, "Could not get PCI gen")
        i5 == IF is_nvidia /\ ~device.nvidia
              THEN PartialStatus(i4, "Could not get additional GPU info for NVIDIA GPU")
              ELSE i4
        i6 == IF device.lspci THEN i5
              ELSE PartialStatus(i5, "Could not parse LSPCI output for GPU")
    IN [i6 EXCEPT !.modules = Append(@, gpu)]

GraphicsInit ==
    /\ platform = "graphics"
    /\ EdidIdle /\ PathIdle /\ DisplayIdle /\ OtherIdle("graphics")
    /\ gfxRoot \in BOOLEAN
    /\ \E n \in 0..MaxDevices : pciDevices \in [1..n -> DeviceKinds]
    /\ gfxRoot = FALSE => pciDevices = <<>>
    /\ graphics_info = GraphicsInfo
    /\ visited = 0
    /\ gfxPc = "start"

\* `if not os.path.exists(PCI_ROOT_PATH)`: the function returns at once
RootNotFound ==
    /\ platform = "graphics"
    /\ gfxPc = "start"
    /\ ~gfxRoot
    /\ graphics_info' = [graphics_info EXCEPT
           !.status.type = "FAILED",
           !.status.messages = Append(@, "/sys/bus/pci/devices/ not found")]
    /\ gfxPc' = "done"
    /\ UNCHANGED <<gfxRoot, pciDevices, visited, edidVars, pathVars, displayVars, propVars, hwidVars>>

\* one turn of `for device in os.listdir(PCI_ROOT_PATH)`
VisitDevice ==
    /\ platform = "graphics"
    /\ gfxPc = "start"
    /\ gfxRoot
    /\ visited < Len(pciDevices)
    /\ LET device == pciDevices[visited + 1]
           is_gpu == _check_gpu_class(device)
       IN graphics_info' =
              IF is_gpu.kind = "raised"
              THEN PartialStatus(graphics_info, "Could not open file for")
              ELSE IF ~is_gpu.value THEN graphics_info
              ELSE AppendGpu(graphics_info, device)
    /\ visited' = visited + 1
    /\ UNCHANGED <<gfxRoot, pciDevices, gfxPc, edidVars, pathVars, displayVars, propVars, hwidVars>>

\* the loop is over: return graphics_info
ReturnGraphicsInfo ==
    /\ platform = "graphics"
    /\ gfxPc = "start"
    /\ gfxRoot
    /\ visited = Len(pciDevices)
    /\ gfxPc' = "done"
    /\ UNCHANGED <<gfxRoot, pciDevices, graphics_info, visited,
                   edidVars, pathVars, displayVars, propVars, hwidVars>>

GraphicsNext == RootNotFound \/ VisitDevice \/ ReturnGraphicsInfo

SpecGraphics == GraphicsInit /\ [][GraphicsNext]_vars

\* the devices of the listing that the claim speaks of: the class file is
\* readable and holds a code of base class 0x03
IsDisplayController(device) ==
    /\ device.class # None
    /\ Len(device.class[1]) = 8
    /\ SubSeq(device.class[1], 1, 4) = <<"0", "x", "0", "3">>

\* the class file cannot be read as a class code
ClassUnusable(device) == device.class = None \/ device.class = Some(<<>>)

\* one of the sub-queries for a display controller fails
SubQueryFails(device) ==
    \/ device.vendor = None \/ device.width = None
    \/ ~device.acpi
    \/ ~device.pci
    \/ device.speed = None \/ device.speed = Some(<<"U", "n", "k", "n", "o", "w", "n">>)
    \/ device.vendor = Some("0x10de") /\ ~device.nvidia
    \/ ~device.lspci

SomethingFailed ==
    \E i \in 1..Len(pciDevices) :
        \/ ClassUnusable(pciDevices[i])
        \/ IsDisplayController(pciDevices[i]) /\ SubQueryFails(pciDevices[i])

MaxInterfaces == 2

\* the width of a pointer, scaled down from 64 bits
PointerBits == 16

\* `_INVALID_HKEY = -1`, what get_edid_by_hwid compares the handles with
_INVALID_HKEY == -1

\* what the OS returns when SetupDiGetClassDevsA or SetupDiOpenDevRegKey
\* fails: INVALID_HANDLE_VALUE, (HANDLE)-1
INVALID_HANDLE_VALUE == -1

\* a result of restype c_void_p: None for a null pointer, else the pointer as
\* an unsigned integer
HANDLE(pointer) == IF pointer = 0 THEN None ELSE Some(pointer % (2 ^ PointerBits))

\* the interfaces: whether the size query gives a size, whether the detail
\* query succeeds, whether the device path holds hwid_upper, what
\* SetupDiOpenDevRegKey returns and how _read_edid_from_registry ends
InterfaceKinds ==
    [size : BOOLEAN, detail : BOOLEAN, matches : BOOLEAN,
     key : {INVALID_HANDLE_VALUE, 8192}, read : {"edid", "none", "raise"}]

HwidInit ==
    /\ platform = "hwid"
    /\ EdidIdle /\ PathIdle /\ DisplayIdle /\ OtherIdle("hwid")
    /\ \E hwid \in BOOLEAN, devs \in {INVALID_HANDLE_VALUE, 4096}, n \in 0..MaxInterfaces :
         \E interfaces \in [1..n -> InterfaceKinds] :
            \* nothing is enumerated without a device information set
            /\ (~hwid \/ devs = INVALID_HANDLE_VALUE) => n = 0
            /\ setupapi = [hwid |-> hwid, devs |-> devs, interfaces |-> interfaces]
    /\ lookup = [pc |-> "start", device_info_set |-> None, interface_index |-> 0,
                 registry_key |-> None, result |-> Pending, out |-> Pending]
    /\ handles = [obtained |-> {}, released |-> <<>>]

\* get_edid_by_hwid up to the try statement
GetClassDevs ==
    /\ platform = "hwid"
    /\ lookup.pc = "start"
    /\ IF ~setupapi.hwid
       THEN /\ lookup' = [lookup EXCEPT !.pc = "done", !.out = Returned(None)]
            /\ UNCHANGED handles
       ELSE LET device_info_set == HANDLE(setupapi.devs)
            IN /\ handles' = IF setupapi.devs = INVALID_HANDLE_VALUE THEN handles
                             ELSE [handles EXCEPT !.obtained = @ \cup {device_info_set}]
               /\ lookup' = IF device_info_set = Some(_INVALID_HKEY)
                            THEN [lookup EXCEPT !.pc = "done", !.out = Returned(None)]
                            ELSE [lookup EXCEPT !.pc = "enumerate",
                                                !.device_info_set = device_info_set]
    /\ UNCHANGED <<setupapi, edidVars, pathVars, displayVars, propVars, gfxVars>>

\* one turn of the loop of _enumerate_and_find_edid, and
\* _try_get_edid_for_interface up to its try statement
EnumInterface ==
    /\ platform = "hwid"
    /\ lookup.pc = "enumerate"
    /\ IF lookup.interface_index >= Len(setupapi.interfaces)
       THEN /\ lookup' = [lookup EXCEPT !.pc = "finally", !.result = Returned(None)]
            /\ UNCHANGED handles
       ELSE LET interface == setupapi.interfaces[lookup.interface_index + 1]
                \* the OS gives every key that it opens a handle of its own
                opened == IF interface.key = INVALID_HANDLE_VALUE THEN interface.key
                          ELSE interface.key + lookup.interface_index
                registry_key == HANDLE(opened)
            IN IF ~interface.size \/ ~interface.detail \/ ~interface.matches
               THEN /\ lookup' = [lookup EXCEPT !.interface_index = @ + 1]
                    /\ UNCHANGED handles
               ELSE /\ handles' = IF interface.key = INVALID_HANDLE_VALUE THEN handles
                                  ELSE [handles EXCEPT !.obtained = @ \cup {registry_key}]
                    /\ lookup' = IF registry_key = Some(_INVALID_HKEY) \/ registry_key = Some(0)
                                 THEN [lookup EXCEPT !.interface_index = @ + 1]
                                 ELSE [lookup EXCEPT !.pc = "read",
                                                     !.registry_key = registry_key]
    /\ UNCHANGED <<setupapi, edidVars, pathVars, displayVars, propVars, gfxVars>>

\* `try: return _read_edid_from_registry(registry_key)
\*  finally: RegCloseKey(registry_key)`, and what the loop does with the result
ReadEdid ==
    /\ platform = "hwid"
    /\ lookup.pc = "read"
    /\ LET interface == setupapi.interfaces[lookup.interface_index + 1]
           \* RegQueryValueExA fails on a key that is none
           outcome == IF lookup.registry_key \notin handles.obtained /\ interface.read = "edid"
                      THEN "none" ELSE interface.read
       IN lookup' =
            IF outcome = "edid"
            THEN [lookup EXCEPT !.pc = "finally", !.registry_key = None,
                                !.result = Returned("edid")]
            ELSE IF outcome = "raise"
            THEN [lookup EXCEPT !.pc = "finally", !.registry_key = None,
                                !.result = Raised("Exception")]
            ELSE [lookup EXCEPT !.pc = "enumerate", !.registry_key = None,
                                !.interface_index = @ + 1]
    /\ handles' = [handles EXCEPT !.released = Append(@, lookup.registry_key)]
    /\ UNCHANGED <<setupapi, edidVars, pathVars, displayVars, propVars, gfxVars>>

\* `finally: SetupDiDestroyDeviceInfoList(device_info_set)`, then the return
DestroyDeviceInfoList ==
    /\ platform = "hwid"
    /\ lookup.pc = "finally"
    /\ handles' = [handles EXCEPT !.released = Append(@, lookup.device_info_set)]
    /\ lookup' = [lookup EXCEPT !.pc = "done", !.out = lookup.result]
    /\ UNCHANGED <<setupapi, edidVars, pathVars, displayVars, propVars, gfxVars>>

HwidNext == GetClassDevs \/ EnumInterface \/ ReadEdid \/ DestroyDeviceInfoList

SpecHwid == HwidInit /\ [][HwidNext]_vars

====
